---- MODULE Spec2Model ----
(***************************************************************************)
(* Tag-driven deployment and rollback engine of karma-workflows.           *)
(*                                                                         *)
(* Three shell scripts are modelled:                                       *)
(*   v2       scripts/deploy.sh            (Karma Deploy Script 2.0.0)     *)
(*   v3       the deploy script v3.0 (second half of unnamed/part_003)     *)
(*   rollback the rollback tool (unnamed/part_005)                         *)
(*                                                                         *)
(* Strings of the shape  <p>N.N.N-seg-seg...  are modelled as records      *)
(*   [p |-> leading text, ver |-> <<N, N, N>>, suf |-> <<seg, seg, ...>>]  *)
(* where each N is a numeral, the sequence of its decimal digits, so that  *)
(* the scripts' string operations (prefix and suffix stripping, globbing,  *)
(* concatenation, version sort, arithmetic expansion) are computed as      *)
(* bash, git and sort compute them.                                        *)
(***************************************************************************)
EXTENDS Integers, Sequences, FiniteSets, TLC

(***************************************************************************)
(* Bounds of the model.                                                    *)
(***************************************************************************)
MaxTags == 2
MaxClock == 1

(***************************************************************************)
(* Strings.                                                                *)
(***************************************************************************)
VERSION_PREFIX == "v"

Word(w) == [k |-> w, n |-> 0]
Num(n) == [k |-> "num", n |-> n]
Str(p, ver, suf) == [p |-> p, ver |-> ver, suf |-> suf]
EmptyStr == Str("", <<>>, <<>>)

\* echo "$n": the decimal numeral of a number
RECURSIVE Numeral(_)
Numeral(n) == IF n < 10 THEN <<n>> ELSE Numeral(n \div 10) \o <<n % 10>>

\* "a.b.c"
V(a, b, c) == Str("", <<Numeral(a), Numeral(b), Numeral(c)>>, <<>>)

\* the number a numeral denotes in base b
RECURSIVE ValueIn(_, _)
ValueIn(b, ds) ==
    IF ds = <<>> THEN 0
    ELSE b * ValueIn(b, SubSeq(ds, 1, Len(ds) - 1)) + ds[Len(ds)]

\* as sort -V and git's version sort read a run of digits
DecValue(ds) == ValueIn(10, ds)

\* as $(( )) reads it: a numeral with a leading 0 is octal, the empty
\* string is 0
IsOctal(ds) == Len(ds) > 1 /\ ds[1] = 0
ArithValue(ds) == IF IsOctal(ds) THEN ValueIn(8, ds) ELSE ValueIn(10, ds)

\* "value too great for base": $(( )) fails
ArithFails(ds) == IsOctal(ds) /\ \E i \in 1..Len(ds) : ds[i] > 7

\* ${x#${VERSION_PREFIX}}
StripPrefix(s) == IF s.p = VERSION_PREFIX THEN [s EXCEPT !.p = ""] ELSE s

\* ${x%-*}: the shortest trailing "-..." is removed
StripLastSeg(s) ==
    IF s.suf = <<>> THEN s
    ELSE [s EXCEPT !.suf = SubSeq(s.suf, 1, Len(s.suf) - 1)]

\* "${a}${b}" where b is a run of "-seg" pieces
Append2(s, segs) == [s EXCEPT !.suf = s.suf \o segs]

\* ^[0-9]+\.[0-9]+\.[0-9]+$
IsXYZ(s) == s.p = "" /\ Len(s.ver) = 3 /\ s.suf = <<>>

(***************************************************************************)
(* Version sort (sort -V) on these strings.                                *)
(***************************************************************************)
SegKey(s) ==
    CASE s.k = "num" -> s.n - 1000
      [] s.k = "dev" -> 0 - 3
      [] s.k = "rollback" -> 0 - 2
      [] OTHER -> 0 - 1

SortKey(s) ==
    [i \in 1..Len(s.ver) |-> DecValue(s.ver[i])]
    \o [i \in 1..Len(s.suf) |-> SegKey(s.suf[i])]

RECURSIVE LexLess(_, _)
LexLess(a, b) ==
    IF a = <<>> THEN b # <<>>
    ELSE IF b = <<>> THEN FALSE
    ELSE IF Head(a) # Head(b) THEN Head(a) < Head(b)
    ELSE LexLess(Tail(a), Tail(b))

VLess(a, b) == LexLess(SortKey(a), SortKey(b))

\* ... | sort -V | tail -n 1
SortVLast(c) == CHOOSE t \in c : \A u \in c \ {t} : VLess(u, t)

(***************************************************************************)
(* Version Resolver.                                                       *)
(***************************************************************************)
SeedTag == [V(0, 0, 0) EXCEPT !.p = VERSION_PREFIX]

\* git tag -l "v*" | grep -E "^v[0-9]+\.[0-9]+\.[0-9]+$"
MatchesProduction(t) == t.p = VERSION_PREFIX /\ Len(t.ver) = 3 /\ t.suf = <<>>

\* git tag -l "v*-<word>"
MatchesSuffix(t, w) ==
    t.p = VERSION_PREFIX /\ t.suf # <<>> /\ t.suf[Len(t.suf)] = Word(w)

\* deploy script v3.0
TrackTags(env, names) ==
    IF env \in {"production", "prod"}
    THEN {t \in names : MatchesProduction(t)}
    ELSE IF env = "staging"
    THEN {t \in names : MatchesSuffix(t, "staging")}
    ELSE {t \in names : MatchesSuffix(t, "dev")}

get_latest_version(env, names) ==
    IF TrackTags(env, names) = {} THEN SeedTag
    ELSE SortVLast(TrackTags(env, names))

\* scripts/deploy.sh
TrackTags_v2(env, names) ==
    IF env = "production"
    THEN {t \in names : MatchesProduction(t)}
    ELSE {t \in names : MatchesSuffix(t, env)}

get_latest_version_v2(env, names) ==
    IF TrackTags_v2(env, names) = {} THEN SeedTag
    ELSE SortVLast(TrackTags_v2(env, names))

\* IFS='.' read -r major minor patch: a missing field is the empty string
Field(s, i) == IF i <= Len(s.ver) THEN s.ver[i] ELSE <<>>

RECURSIVE SumNums(_)
SumNums(segs) ==
    IF segs = <<>> THEN 0
    ELSE (IF Head(segs).k = "num" THEN Head(segs).n ELSE 0) + SumNums(Tail(segs))

\* the case statement of increment_version and echo "$major.$minor.$patch":
\* only the field that is raised goes through $(( )); rest is what trails
\* the patch number in the patch field (scripts/deploy.sh)
Bump(major, minor, patch, rest, increment_type) ==
    CASE increment_type = "major" ->
           Str("", <<Numeral(ArithValue(major) + 1), <<0>>, <<0>>>>, <<>>)
      [] increment_type = "minor" ->
           Str("", <<major, Numeral(ArithValue(minor) + 1), <<0>>>>, <<>>)
      [] increment_type = "patch" ->
           Str("", <<major, minor, Numeral(ArithValue(patch) - SumNums(rest) + 1)>>, <<>>)
      [] OTHER -> Str("", <<major, minor, patch>>, rest)

\* the field that $(( )) cannot read, if any
BumpFails(major, minor, patch, increment_type) ==
    CASE increment_type = "major" -> ArithFails(major)
      [] increment_type = "minor" -> ArithFails(minor)
      [] increment_type = "patch" -> ArithFails(patch)
      [] OTHER -> FALSE

\* deploy script v3.0: patch=${patch%%-*} drops what trails the number
increment_version(version, increment_type) ==
    LET s == StripLastSeg(StripPrefix(version))
    IN  Bump(Field(s, 1), Field(s, 2), Field(s, 3), <<>>, increment_type)

\* scripts/deploy.sh: the patch field keeps what trails the number, and
\* $((patch + 1)) reads "P-word-N" as P - word - N with word unset (0)
increment_version_v2(version, increment_type) ==
    LET s == StripLastSeg(StripPrefix(version))
    IN  Bump(Field(s, 1), Field(s, 2), Field(s, 3), s.suf, increment_type)

\* increment_version ends with an arithmetic error
increment_fails(version, increment_type) ==
    LET s == StripLastSeg(StripPrefix(version))
    IN  BumpFails(Field(s, 1), Field(s, 2), Field(s, 3), increment_type)

(***************************************************************************)
(* Tag Grammar: the tag a deploy creates.                                   *)
(***************************************************************************)
\* deploy_version, "Construct the full tag" (v3.0)
DeployTag(version, env) ==
    LET tag == [version EXCEPT !.p = VERSION_PREFIX \o version.p]
    IN  IF env = "staging" THEN Append2(tag, <<Word("staging")>>)
        ELSE IF env # "production" /\ env # "prod"
        THEN Append2(tag, <<Word("dev")>>)
        ELSE tag

\* deploy_version, "Construct the full tag" (scripts/deploy.sh)
DeployTag_v2(version, env) ==
    LET tag == [version EXCEPT !.p = VERSION_PREFIX \o version.p]
    IN  IF env # "production" THEN Append2(tag, <<Word(env)>>) ELSE tag

(***************************************************************************)
(* State.                                                                  *)
(*   tags, remote   tag name -> commit, in the working clone and on origin *)
(*   head           the commit checked out in the working clone            *)
(*   pkg            the "version" of package.json (EmptyStr: no such file) *)
(* and the variables of the invocation that is running, named as in the    *)
(* scripts.  ops, gate and confirmed are history variables: the mutating   *)
(* commands the invocation has run, the confirmation gate at which the     *)
(* operator declined, whether the production confirmation string was      *)
(* typed exactly, and whether the command line named the hotfix mode.      *)
(***************************************************************************)
VARIABLES tags, remote, head, pkg, peer,
          script, pc, environment, increment_type, specific_version,
          rebuild_mode, preview_mode, latest_tag,
          new_version, version_choice, collision_choice, exit_code, ops, gate,
          confirmed, hotfix, version, skip_confirm, show_history, SERVICE_NAME,
          current_version, new_tag, message,
          gh, check_count, queries, workflow_found, workflow_status,
          workflow_conclusion, run, printed, listed, old_run, workflow_id,
          status_indicator, last_status, status_lines

world == <<tags, remote, head, pkg, peer>>
deployVars == <<increment_type, specific_version, rebuild_mode, preview_mode,
                latest_tag, new_version, version_choice, collision_choice,
                confirmed, hotfix>>
rollbackVars == <<version, skip_confirm, show_history, SERVICE_NAME,
                  current_version, new_tag, message>>
runVars == <<gh, check_count, queries, workflow_found, workflow_status,
             workflow_conclusion, run, printed, listed, old_run, workflow_id>>
pollVars == <<last_status, status_lines>>
monitorVars == <<runVars, status_indicator, pollVars>>
vars == <<tags, remote, head, pkg, peer,
          script, pc, environment, increment_type, specific_version,
          rebuild_mode, preview_mode, latest_tag,
          new_version, version_choice, collision_choice, exit_code, ops, gate,
          confirmed, hotfix, version, skip_confirm, show_history, SERVICE_NAME,
          current_version, new_tag, message,
          gh, check_count, queries, workflow_found, workflow_status,
          workflow_conclusion, run, printed, listed, old_run, workflow_id,
          status_indicator, last_status, status_lines>>

NoTags == [t \in {} |-> 0]
NoCommit == 0 - 1

\* a reference as a workflow run reports it in headBranch
Ref(prefix, name) == [prefix |-> prefix, name |-> name]

\* no workflow run on GitHub
NoRun == [headBranch |-> Ref("", EmptyStr), status |-> "none", conclusion |-> ""]

\* no other operator has pushed a tag
NoPeer == [tag |-> EmptyStr, pushed |-> FALSE, after |-> FALSE]

\* no tag message composed: the tag names and the words a message holds
NoMessage == [tags |-> {}, words |-> {}]

\* no status indicator composed by select_version
NoListing == [t \in {} |-> ""]

\* the locals of monitor_github_actions as it declares them, nothing printed
\* and no run listed by gh run list
MonitorLocals ==
    /\ gh = FALSE
    /\ check_count = 0
    /\ queries = 0
    /\ workflow_found = FALSE
    /\ workflow_id = ""
    /\ workflow_status = ""
    /\ workflow_conclusion = ""
    /\ printed = {}
    /\ listed = {}
    /\ status_indicator = NoListing
    /\ last_status = ""
    /\ status_lines = <<>>

\* and no workflow run on GitHub: neither one of the tag just pushed (run)
\* nor one of an earlier push (old_run)
MonitorIdle ==
    /\ MonitorLocals
    /\ run = NoRun
    /\ old_run = NoRun

\* values a fresh invocation starts from
Idle ==
    /\ script = "none"
    /\ pc = "idle"
    /\ environment = ""
    /\ increment_type = "patch"
    /\ specific_version = EmptyStr
    /\ rebuild_mode = FALSE
    /\ preview_mode = FALSE
    /\ latest_tag = EmptyStr
    /\ new_version = EmptyStr
    /\ version_choice = 0
    /\ collision_choice = 0
    /\ exit_code = 0
    /\ ops = <<>>
    /\ gate = "none"
    /\ confirmed = FALSE
    /\ hotfix = FALSE
    /\ version = EmptyStr
    /\ skip_confirm = FALSE
    /\ show_history = FALSE
    /\ SERVICE_NAME = ""
    /\ current_version = EmptyStr
    /\ new_tag = EmptyStr
    /\ message = NoMessage
    /\ MonitorIdle

\* strings an operator may pass as --version or type as a custom version
VersionInputs ==
    {V(1, 0, 0),
     Str("", <<<<1>>, <<0>>>>, <<>>),
     Append2(V(1, 0, 0), <<Word("dev")>>),
     Str("", <<<<0, 1, 0>>, <<0>>, <<0>>>>, <<>>)}

(***************************************************************************)
(* The repository when a script is invoked.  Every tag below is one the    *)
(* scripts create: v<X.Y.Z>[-dev|-staging] by a deploy with --version      *)
(* X.Y.Z, v1.0.0-dev-dev by "deploy.sh dev --version 1.0.0-dev",           *)
(* v010.0.0-dev by the custom version 010.0.0 of the version menu, and the *)
(* rollback markers by the rollback tool.  The tags were created at commit *)
(* 0 and pushed, so the clone and origin agree when the script starts; the *)
(* commit checked out is that one or a later one.                          *)
(***************************************************************************)
InitialTags ==
    {DeployTag_v2(v, e) : v \in {V(0, 0, 1), V(1, 0, 0)}, e \in {"dev", "production"}}
    \cup {DeployTag_v2(V(1, 0, 0), "staging"),
          DeployTag_v2(Append2(V(1, 0, 0), <<Word("dev")>>), "dev"),
          DeployTag_v2(Str("", <<<<0, 1, 0>>, <<0>>, <<0>>>>, <<>>), "dev"),
          Append2(DeployTag_v2(V(1, 0, 0), "production"), <<Word("rollback"), Num(0)>>),
          Append2(DeployTag_v2(V(1, 0, 0), "dev"), <<Word("rollback"), Num(0)>>)}

InitialTagSets ==
    {{q[i] : i \in 1..MaxTags} \ {EmptyStr} :
        q \in [1..MaxTags -> InitialTags \cup {EmptyStr}]}

Init ==
    /\ \E S \in InitialTagSets : tags = [t \in S |-> 0]
    /\ remote = tags
    /\ head \in {0, 1}
    /\ pkg \in {EmptyStr, V(1, 0, 0)}
    /\ peer = NoPeer
    /\ Idle

\* exit N
Exit(code) == pc' = "done" /\ exit_code' = code

\* exit 1 after the operator declined at the gate g
Decline(g, code) == Exit(code) /\ gate' = g

Put(f, t, c) == [x \in DOMAIN f \cup {t} |-> IF x = t THEN c ELSE f[x]]
Drop(f, t) == [x \in DOMAIN f \ {t} |-> f[x]]

(***************************************************************************)
(* Deploy scripts: main.                                                   *)
(***************************************************************************)
EnvArgs == {"dev", "development", "staging", "prod", "production", "hotfix"}

\* "Parse command line arguments" and "Convert environment shortcuts" (v3.0)
EnvOfArg(a) ==
    CASE a \in {"dev", "development"} -> "dev"
      [] a \in {"prod", "production"} -> "prod"
      [] OTHER -> a

\* "Parse arguments" (scripts/deploy.sh)
EnvOfArg_v2(a) ==
    CASE a \in {"dev", "development"} -> "dev"
      [] a \in {"prod", "production"} -> "production"
      [] OTHER -> a

\* "Interactive mode if no environment specified" (v3.0); choice 4 launches
\* the rollback script (RollbackStart)
EnvOfMenu(choice) ==
    CASE choice = 1 -> "dev"
      [] choice = 2 -> "staging"
      [] choice = 3 -> "prod"
      [] OTHER -> ""

IsProduction(env) == env \in {"prod", "production"}

\* main, from the command line to "Special handling for hotfix".  The
\* options --version, --rebuild and --major/--minor/--patch are drawn where
\* main first reads them (DetermineVersion), ENABLE_PREVIEW in Preview.
DeployStart ==
    /\ pc = "idle"
    /\ \E scr \in {"v2", "v3"}, arg \in EnvArgs \cup {""}, choice \in {1, 2, 3, 5, 6},
          pv \in BOOLEAN, ENABLE_HOTFIX \in BOOLEAN :
        LET env == IF arg # "" THEN (IF scr = "v3" THEN EnvOfArg(arg) ELSE EnvOfArg_v2(arg))
                   ELSE IF scr = "v3" THEN EnvOfMenu(choice) ELSE ""
        IN  /\ script' = scr
            /\ preview_mode' = pv
            /\ hotfix' = (env = "hotfix" /\ ENABLE_HOTFIX)
            /\ IF env = ""
               THEN /\ IF scr = "v3" /\ choice = 5
                       THEN Decline("menu", 0)
                       ELSE Exit(1) /\ gate' = gate
                    /\ UNCHANGED environment
               ELSE IF env = "hotfix"
               THEN IF ENABLE_HOTFIX
                    THEN /\ environment' = "production"
                         /\ pc' = "check_status"
                         /\ UNCHANGED <<exit_code, gate>>
                    ELSE /\ Exit(1)
                         /\ environment' = env
                         /\ gate' = gate
               ELSE /\ environment' = env
                    /\ pc' = "check_status"
                    /\ UNCHANGED <<exit_code, gate>>
    /\ UNCHANGED <<world, increment_type, specific_version, rebuild_mode,
                   latest_tag, new_version, version_choice, collision_choice,
                   ops, confirmed, rollbackVars>>
    /\ UNCHANGED monitorVars

\* "Check git status"; the branch check that follows is made by v3.0 for
\* production only, by scripts/deploy.sh always
CheckGitStatus ==
    /\ pc = "check_status"
    /\ \E dirty \in BOOLEAN, yes \in BOOLEAN :
        IF dirty /\ ~yes
        THEN Decline("status", 1)
        ELSE /\ pc' = IF script = "v2" \/ IsProduction(environment)
                      THEN "check_branch" ELSE "fetch"
             /\ UNCHANGED <<exit_code, gate>>
    /\ UNCHANGED <<world, script, environment, deployVars, ops, rollbackVars>>
    /\ UNCHANGED monitorVars

\* "Check branch for production deployment" (v3.0), check_branch (v2)
CheckBranch ==
    /\ pc = "check_branch"
    /\ \E is_valid_branch \in BOOLEAN, yes \in BOOLEAN :
        IF ~is_valid_branch /\ ~yes
        THEN Decline("branch", 1)
        ELSE pc' = "fetch" /\ UNCHANGED <<exit_code, gate>>
    /\ UNCHANGED <<world, script, environment, deployVars, ops, rollbackVars>>
    /\ UNCHANGED monitorVars

\* git fetch --tags: tags unknown to the clone are added; a tag the clone
\* holds at another commit is rejected ("would clobber existing tag", and
\* fetch fails) by git 2.20 and later, and overwritten by older versions
FetchTags ==
    /\ pc = "fetch"
    /\ LET new == DOMAIN remote \ DOMAIN tags
           clash == {t \in DOMAIN remote \cap DOMAIN tags : remote[t] # tags[t]}
           added == [t \in DOMAIN tags \cup new |->
                        IF t \in new THEN remote[t] ELSE tags[t]]
       IN  \/ /\ clash = {}
              /\ tags' = added
              /\ pc' = "determine"
              /\ UNCHANGED exit_code
           \/ /\ clash # {}
              /\ tags' = added
              /\ Exit(1)
           \/ /\ clash # {}
              /\ tags' = [t \in DOMAIN added |->
                            IF t \in clash THEN remote[t] ELSE added[t]]
              /\ pc' = "determine"
              /\ UNCHANGED exit_code
    /\ UNCHANGED <<remote, head, pkg, peer, script, environment, deployVars,
                   ops, gate, rollbackVars>>
    /\ UNCHANGED monitorVars

\* the prefix removed and the environment suffix kept
VersionOfTagKeepSuffix(tag) == StripPrefix(tag)

\* current_version=${latest_tag#${VERSION_PREFIX}}; current_version=${current_version%-*}
VersionOfTag(tag) == StripLastSeg(StripPrefix(tag))

\* what the version menu does with the operator's answer
VersionMenu(choice) ==
    CASE choice = 1 -> "patch"
      [] choice = 2 -> "minor"
      [] choice = 3 -> "major"
      [] choice = 4 -> "custom"
      [] choice = 5 -> "rebuild"
      [] choice = 6 -> "cancel"
      [] OTHER -> "invalid"

\* "Determine version" (v3.0).  increment_type is parsed from the command
\* line and not read here; an increment flag is drawn only for invocations
\* in which the operator picks an increment from the version menu.
DetermineVersion ==
    /\ pc = "determine"
    /\ script = "v3"
    /\ \E inc \in {"major", "minor", "patch"}, spec \in VersionInputs \cup {EmptyStr},
          rb \in BOOLEAN, choice \in 0..7, custom \in VersionInputs :
        LET latest == get_latest_version(environment, DOMAIN tags)
            menu == ~rb /\ spec = EmptyStr
            answer == VersionMenu(choice)
        IN  /\ increment_type' = (IF hotfix THEN "patch" ELSE inc)
            /\ specific_version' = spec
            /\ latest_tag' = latest
            /\ menu <=> choice # 0
            /\ answer \notin {"patch", "minor", "major"} => inc = "patch"
            /\ rb => spec \in {EmptyStr, V(1, 0, 0)}
            /\ answer # "custom" => custom = V(1, 0, 0)
            /\ version_choice' = choice
            /\ rebuild_mode' = (rb \/ (menu /\ answer = "rebuild"))
            /\ new_version' =
                 IF rb THEN VersionOfTag(latest)
                 ELSE IF spec # EmptyStr THEN spec
                 ELSE CASE answer \in {"patch", "minor", "major"} ->
                             increment_version(VersionOfTag(latest), answer)
                        [] answer = "custom" -> custom
                        [] answer = "rebuild" -> VersionOfTag(latest)
                        [] OTHER -> EmptyStr
            /\ IF menu /\ answer = "cancel" THEN Decline("version", 0)
               ELSE IF menu /\ (answer = "invalid"
                                \/ (answer = "custom" /\ ~IsXYZ(custom))
                                \/ (answer \in {"patch", "minor", "major"}
                                    /\ increment_fails(VersionOfTag(latest), answer)))
               THEN Exit(1) /\ UNCHANGED gate
               ELSE /\ pc' = IF IsProduction(environment) THEN "confirm" ELSE "preview"
                    /\ UNCHANGED <<exit_code, gate>>
    /\ UNCHANGED <<world, script, environment, preview_mode, collision_choice,
                   ops, confirmed, hotfix, rollbackVars>>
    /\ UNCHANGED monitorVars

\* "Determine version" (scripts/deploy.sh), which has no production
\* confirmation: "Preview mode" follows.  An increment flag is drawn only
\* for command lines without --version, and not in hotfix mode, whose
\* special handling has set increment_type to patch after the flags were read.
DetermineVersion_v2 ==
    /\ pc = "determine"
    /\ script = "v2"
    /\ \E inc \in {"major", "minor", "patch"}, spec \in VersionInputs \cup {EmptyStr} :
        LET latest_version == get_latest_version_v2(environment, DOMAIN tags)
        IN  /\ spec # EmptyStr \/ hotfix => inc = "patch"
            /\ increment_type' = inc
            /\ specific_version' = spec
            /\ IF spec # EmptyStr
               THEN /\ new_version' = spec
                    /\ UNCHANGED latest_tag
               ELSE /\ latest_tag' = latest_version
                    /\ new_version' = increment_version_v2(latest_version, inc)
            /\ IF spec = EmptyStr /\ increment_fails(latest_version, inc)
               THEN Exit(1)
               ELSE pc' = "preview" /\ UNCHANGED exit_code
    /\ UNCHANGED <<world, script, environment, rebuild_mode, preview_mode,
                   version_choice, collision_choice, ops, gate, confirmed,
                   hotfix, rollbackVars>>
    /\ UNCHANGED monitorVars

\* "Production deployment confirmation" (v3.0 only): the operator types
\* 'DEPLOY <tag>' exactly, or anything else
ConfirmProduction ==
    /\ pc = "confirm"
    /\ \E exact \in BOOLEAN :
         IF exact
         THEN confirmed' = TRUE /\ pc' = "preview" /\ UNCHANGED <<exit_code, gate>>
         ELSE Decline("production", 1) /\ UNCHANGED confirmed
    /\ UNCHANGED <<world, script, environment, increment_type, specific_version,
                   rebuild_mode, preview_mode, latest_tag,
                   new_version, version_choice, collision_choice, ops,
                   hotfix, rollbackVars>>
    /\ UNCHANGED monitorVars

\* "Update package.json if not rebuilding" exists in v3.0 only
AfterPreview == IF script = "v3" THEN "bump" ELSE "deploy"

\* Preview without the exit of --preview: the proceed prompt only
PreviewWithoutExit ==
    /\ pc = "preview"
    /\ \E yes \in BOOLEAN :
        IF yes THEN pc' = AfterPreview /\ UNCHANGED <<exit_code, gate>>
        ELSE Decline("proceed", 1)
    /\ UNCHANGED <<world, script, environment, deployVars, ops, rollbackVars>>
    /\ UNCHANGED monitorVars

\* "Preview mode"
Preview ==
    /\ pc = "preview"
    /\ \E ENABLE_PREVIEW \in BOOLEAN, yes \in BOOLEAN :
        IF preview_mode \/ ENABLE_PREVIEW
        THEN IF preview_mode
             THEN Exit(0) /\ UNCHANGED gate
             ELSE IF yes THEN pc' = AfterPreview /\ UNCHANGED <<exit_code, gate>>
                  ELSE Decline("proceed", 1)
        ELSE pc' = AfterPreview /\ UNCHANGED <<exit_code, gate>>
    /\ UNCHANGED <<world, script, environment, deployVars, ops, rollbackVars>>
    /\ UNCHANGED monitorVars

\* "Update package.json if not rebuilding" (v3.0 only): sed, git add,
\* git commit, git push origin <branch> || true
BumpPackageJson ==
    /\ pc = "bump"
    /\ IF ~rebuild_mode /\ pkg # EmptyStr /\ pkg # new_version
       THEN /\ pkg' = new_version
            /\ head' = head + 1
            /\ ops' = ops \o <<"commit", "commit_push">>
       ELSE UNCHANGED <<pkg, head, ops>>
    /\ pc' = "deploy"
    /\ UNCHANGED <<tags, remote, peer, script, environment, deployVars,
                   exit_code, gate, rollbackVars>>
    /\ UNCHANGED monitorVars

(***************************************************************************)
(* Deployment Orchestrator: deploy_version.                                *)
(***************************************************************************)
\* git push origin "$tag" that origin accepts whatever it holds
PushAlwaysAccepted(tag, force) == TRUE

\* git push origin "$tag": a tag the remote already holds is rejected
PushAccepted(tag, force) == force \/ tag \notin DOMAIN remote

\* Rebuild with a git tag -a that leaves an existing tag where it is
RebuildWithoutMove(tag) ==
    /\ tags' = (IF tag \in DOMAIN tags THEN tags ELSE Put(tags, tag, head))
    /\ remote' = Put(remote, tag, tags'[tag])
    /\ ops' = ops \o <<"tag_create", "push">>
    /\ pc' = "monitor"
    /\ UNCHANGED <<exit_code, gate>>

\* Rebuild that pushes the re-created tag first and deletes the remote ref
\* afterwards
RebuildPushFirst(tag) ==
    \E pushed \in BOOLEAN :
        /\ tags' = Put(tags, tag, head)
        /\ remote' = Drop(remote, tag)
        /\ ops' = ops \o <<"tag_create">>
                      \o (IF pushed THEN <<"push">> ELSE <<"push_failed">>)
                      \o (IF tag \in DOMAIN tags THEN <<"tag_delete">> ELSE <<>>)
                      \o <<"remote_delete">>
        /\ IF pushed THEN pc' = "monitor" /\ UNCHANGED exit_code
           ELSE Exit(1)
        /\ UNCHANGED gate

\* the rebuild branch: git tag -d || true; git push origin :refs/tags/<tag>
\* || true; git tag -a -f; git push origin <tag> -f
Rebuild(tag) ==
    \E remote_deleted \in BOOLEAN, pushed \in BOOLEAN :
        LET was_local == tag \in DOMAIN tags
            gone == remote_deleted /\ tag \in DOMAIN remote
            r1 == IF gone THEN Drop(remote, tag) ELSE remote
        IN  /\ remote_deleted => tag \in DOMAIN remote
            /\ tags' = Put(tags, tag, head)
            /\ remote' = IF pushed THEN Put(r1, tag, head) ELSE r1
            /\ ops' = ops \o (IF was_local THEN <<"tag_delete">> ELSE <<>>)
                          \o (IF gone THEN <<"remote_delete">> ELSE <<>>)
                          \o <<"tag_create">>
                          \o (IF pushed THEN <<"push">> ELSE <<"push_failed">>)
            /\ IF pushed THEN pc' = "monitor" /\ UNCHANGED exit_code
               ELSE Exit(1)
            /\ UNCHANGED gate

\* CreateAndPush that goes on to monitoring after a rejected push
CreateAndPushThenMonitor(tag) ==
    \E pushed \in BOOLEAN :
        /\ pushed => PushAccepted(tag, FALSE)
        /\ tags' = Put(tags, tag, head)
        /\ remote' = IF pushed THEN Put(remote, tag, head) ELSE remote
        /\ ops' = ops \o <<"tag_create">>
                      \o (IF pushed THEN <<"push">> ELSE <<"push_failed">>)
        /\ pc' = "monitor"
        /\ UNCHANGED <<exit_code, gate>>

\* git tag -a "$tag"; git push origin "$tag"
CreateAndPush(tag) ==
    \E pushed \in BOOLEAN :
        /\ pushed => PushAccepted(tag, FALSE)
        /\ tags' = Put(tags, tag, head)
        /\ remote' = IF pushed THEN Put(remote, tag, head) ELSE remote
        /\ ops' = ops \o <<"tag_create">>
                      \o (IF pushed THEN <<"push">> ELSE <<"push_failed">>)
        /\ IF pushed THEN pc' = "monitor" /\ UNCHANGED exit_code
           ELSE Exit(1)
        /\ UNCHANGED gate

\* CollisionChoice with a default branch that rebuilds
CollisionChoiceRebuildByDefault(choice) ==
    CASE choice = 2 -> "exit0"
      [] choice = 3 -> "exit1"
      [] OTHER -> "rebuild"

\* what the collision menu does with the operator's answer: "rebuild",
\* "exit0", "exit1", or "tag" when the case statement falls through to
\* git tag -a, which fails because the tag exists
CollisionChoice(choice) ==
    CASE choice = 1 -> "rebuild"
      [] choice = 2 -> "exit0"
      [] choice = 3 -> "exit1"
      [] OTHER -> "tag"

\* deploy_version (v3.0)
DeployVersion ==
    /\ pc = "deploy"
    /\ script = "v3"
    /\ LET tag == DeployTag(new_version, environment)
       IN  IF rebuild_mode
           THEN Rebuild(tag) /\ UNCHANGED collision_choice
           ELSE IF tag \in DOMAIN tags
           THEN \E choice \in 1..4 :
                  /\ collision_choice' = choice
                  /\ CASE CollisionChoice(choice) = "rebuild" -> Rebuild(tag)
                       [] CollisionChoice(choice) = "exit0" ->
                            Decline("collision", 0) /\ UNCHANGED <<tags, remote, ops>>
                       [] CollisionChoice(choice) = "exit1" ->
                            Decline("collision", 1) /\ UNCHANGED <<tags, remote, ops>>
                       [] OTHER ->
                            Exit(128) /\ UNCHANGED <<tags, remote, ops, gate>>
           ELSE CreateAndPush(tag) /\ UNCHANGED collision_choice
    /\ UNCHANGED <<head, pkg, peer, script, environment, increment_type,
                   specific_version, rebuild_mode, preview_mode, latest_tag,
                   new_version, version_choice, confirmed, hotfix, rollbackVars>>
    /\ UNCHANGED monitorVars

\* deploy_version (scripts/deploy.sh): git tag -a fails when the tag exists
DeployVersion_v2 ==
    /\ pc = "deploy"
    /\ script = "v2"
    /\ LET tag == DeployTag_v2(new_version, environment)
       IN  IF tag \in DOMAIN tags
           THEN Exit(128) /\ UNCHANGED <<tags, remote, ops, gate>>
           ELSE CreateAndPush(tag)
    /\ UNCHANGED <<head, pkg, peer, script, environment, deployVars, rollbackVars>>
    /\ UNCHANGED monitorVars

\* monitor_github_actions, by its outcome: monitoring is skipped or finds no
\* run, or the run it watched ends in success or in anything else.  Its
\* loops are taken step by step in the Run Monitor section (MonitorSpec).
MonitorDeployment ==
    /\ pc = "monitor"
    /\ \E outcome \in {"skipped", "not_found", "success", "failure"} :
        IF outcome = "failure" THEN Exit(1) ELSE Exit(0)
    /\ UNCHANGED <<world, script, environment, deployVars, ops, gate, rollbackVars>>
    /\ UNCHANGED monitorVars

(***************************************************************************)
(* Workflow runs as gh reports them.                                       *)
(***************************************************************************)
\* the references a run may carry: the tag by its name, the tag by its full
\* reference, or a branch
RunRefs(tag) == {Ref("", tag), Ref("refs/tags/", tag), Ref("", Str("main", <<>>, <<>>))}

\* jq select(.headBranch == "refs/tags/$tag" or .headBranch == "$tag") (v3.0)
MatchesRun(ref, tag) == ref = Ref("refs/tags/", tag) \/ ref = Ref("", tag)

\* jq select(.headBranch == "refs/tags/$tag") (scripts/deploy.sh)
MatchesRun_v2(ref, tag) == ref = Ref("refs/tags/", tag)

\* jq -r '.conclusion': the conclusion of a run that has ended, and null for
\* one that has not
Conclusion(r) == IF r.conclusion = "" THEN "null" ELSE r.conclusion

\* gh run list | jq select(...) | head -n 1: gh lists the newest run first,
\* and the first run that matches is taken
FirstMatch(tag) ==
    LET matches(r) == /\ r.status # "none"
                      /\ IF script = "v2" THEN MatchesRun_v2(r.headBranch, tag)
                         ELSE MatchesRun(r.headBranch, tag)
    IN  IF matches(run) THEN "run"
        ELSE IF matches(old_run) THEN "old_run"
        ELSE ""

RunOf(id) == IF id = "old_run" THEN old_run ELSE run

\* the run gh run view "$workflow_id" and gh run watch "$workflow_id" look at
Watched == RunOf(workflow_id)

(***************************************************************************)
(* Rollback tool.                                                          *)
(***************************************************************************)
MAX_VERSIONS_TO_SHOW == 20

staging_services ==
    {"karma-merchant-api", "karma-merchant-web", "storefront-service", "storefront-web"}

\* has_staging_environment returning 0 after the loop
has_staging_environment_always(service) == TRUE

has_staging_environment(service) == service \in staging_services

\* names that are not deployment tags: the ref HEAD; a tag that does not
\* exist; what $(select_environment) and $(select_version) capture, which is
\* the text of the whole menu (print_color writes it to stdout) and holds
\* the characters "[" of the colour codes
HeadRef == Str("HEAD", <<>>, <<>>)
MissingTag == Append2(SeedTag, <<Word("missing")>>)
Garbled == Str("garbled", <<>>, <<>>)

HasWord(t, w) == \E i \in 1..Len(t.suf) : t.suf[i] = Word(w)

\* the tags get_deployment_history lists, before sorting
HistoryTags(env, names) ==
    LET env_suffix == CASE env \in {"development", "dev"} -> "dev"
                        [] env = "staging" -> "staging"
                        [] OTHER -> ""
    IN  IF env_suffix = ""
        THEN {t \in names : t.p = "v" /\ ~HasWord(t, "dev") /\ ~HasWord(t, "staging")}
        ELSE {t \in names : t.p = "v" /\ t.suf # <<>>
                            /\ t.suf[Len(t.suf)] = Word(env_suffix)}

\* git's version sort (--sort=version:refname) compares two numerals by
\* value, except that a numeral with a leading zero is below every numeral
\* without one, and two such numerals compare digit by digit
LeadingZero(ds) == Len(ds) > 1 /\ ds[1] = 0

GitNumLess(a, b) ==
    IF LeadingZero(a) /\ LeadingZero(b) THEN LexLess(a, b)
    ELSE IF LeadingZero(a) THEN TRUE
    ELSE IF LeadingZero(b) THEN FALSE
    ELSE DecValue(a) < DecValue(b)

\* a version that ends ("-" or the end of the name follows) is below one
\* that goes on with "."
RECURSIVE GitVerLess(_, _)
GitVerLess(x, y) ==
    IF x = <<>> THEN y # <<>>
    ELSE IF y = <<>> THEN FALSE
    ELSE IF Head(x) # Head(y) THEN GitNumLess(Head(x), Head(y))
    ELSE GitVerLess(Tail(x), Tail(y))

GitLess(a, b) ==
    IF a.ver # b.ver THEN GitVerLess(a.ver, b.ver)
    ELSE LexLess([i \in 1..Len(a.suf) |-> SegKey(a.suf[i])],
                 [i \in 1..Len(b.suf) |-> SegKey(b.suf[i])])

GitSortLast(c) == CHOOSE t \in c : \A u \in c \ {t} : GitLess(u, t)

RECURSIVE SortDescending(_)
SortDescending(c) ==
    IF c = {} THEN <<>>
    ELSE <<GitSortLast(c)>> \o SortDescending(c \ {GitSortLast(c)})

FirstN(q, n) == SubSeq(q, 1, IF Len(q) < n THEN Len(q) ELSE n)

\* git tag -l ... --sort=-version:refname | head -n $MAX_VERSIONS_TO_SHOW
get_deployment_history(env, names) ==
    FirstN(SortDescending(HistoryTags(env, names)), MAX_VERSIONS_TO_SHOW)

\* git rev-parse "$version" succeeds: a tag, a ref, or a string holding a
\* glob character (taken as a pathspec)
RevParses(name) == name \in DOMAIN tags \/ name = HeadRef \/ name.p = "garbled"

\* RevList answering with the commit checked out
RevListOfHead(name) == head

\* git rev-list -n 1 "$version"
RevList(name) ==
    IF name \in DOMAIN tags THEN tags[name]
    ELSE IF name = HeadRef THEN head
    ELSE NoCommit

\* "Determine new tag format based on environment": no case matches an
\* environment name the script does not know, and new_tag stays empty
\* a rollback that names its tag as the next version after the target
RollbackTagAsNextVersion(env, target, now) ==
    IF env \in {"development", "dev", "staging", "production", "prod"}
       /\ Len(target.ver) = 3
    THEN [target EXCEPT !.ver[3] = Numeral(DecValue(target.ver[3]) + now + 1)]
    ELSE EmptyStr

RollbackTag(env, target, now) ==
    IF env \in {"development", "dev", "staging", "production", "prod"}
    THEN Append2(target, <<Word("rollback"), Num(now)>>)
    ELSE EmptyStr

\* perform_rollback, local message="Rollback to $version on $environment by
\* $(git config user.name || echo $USER)": the tag names and the words the
\* text holds
RollbackMessage(target, env, configured) ==
    [tags |-> {target},
     words |-> {env, IF configured THEN "user.name" ELSE "USER"}]

RollbackEnvArgs ==
    {"", "dev", "development", "staging", "prod", "production", "rollback"}

\* main, from the command line to the staging guard.  "rollback" is the
\* first argument when deploy.sh launches the tool with exec rollback.sh "$@".
\* --skip-confirm is drawn where main reads it (ConfirmRollback); the
\* service is varied for the environment whose guard reads it.
RollbackStart ==
    /\ pc = "idle"
    /\ \E arg \in RollbackEnvArgs,
          target \in DOMAIN tags \cup {EmptyStr, HeadRef, MissingTag},
          history \in BOOLEAN,
          service \in {"karma-merchant-api", "karma-admin-api"} :
        LET selected == IF arg = "" THEN "garbled" ELSE arg
            env == CASE selected = "dev" -> "development"
                     [] selected = "prod" -> "production"
                     [] OTHER -> selected
        IN  /\ env # "staging" => service = "karma-merchant-api"
            /\ history => target = EmptyStr
            /\ show_history' = history
            /\ script' = "rollback"
            /\ SERVICE_NAME' = service
            /\ version' = target
            /\ environment' = env
            /\ IF history THEN Exit(0)
               ELSE IF env = "staging" /\ ~has_staging_environment(service)
               THEN Exit(1)
               ELSE pc' = "rb_history" /\ UNCHANGED exit_code
    /\ UNCHANGED <<world, deployVars, ops, gate, skip_confirm, current_version,
                   new_tag, message>>
    /\ UNCHANGED monitorVars

\* check_deployment_status that takes a tag without a run as deployed
check_deployment_status_optimistic(tag, installed, answered) ==
    IF installed /\ answered /\ FirstMatch(tag) # ""
    THEN Conclusion(RunOf(FirstMatch(tag)))
    ELSE "success"

\* check_deployment_status: the conclusion of the first listed run of the
\* tag; unknown when gh is not installed, when gh run list or jq fails (the
\* pipeline prints nothing) and when no run matches
check_deployment_status(tag, installed, answered) ==
    IF installed /\ answered /\ FirstMatch(tag) # ""
    THEN Conclusion(RunOf(FirstMatch(tag)))
    ELSE "unknown"

\* select_version, "Format status indicator": the green check mark, the red
\* cross, or the yellow question mark
StatusIndicator(status) ==
    CASE status = "success" -> "check"
      [] status = "failure" -> "cross"
      [] OTHER -> "question"

\* "Get current version" and "Select version if not specified".
\* select_version composes one line per tag of the history, with the status
\* indicator of the tag; whether gh is installed and which of its queries
\* are answered is drawn for the tags that have a run.
RollbackSelect ==
    /\ pc = "rb_history"
    /\ LET history == get_deployment_history(environment, DOMAIN tags)
           entries == {history[i] : i \in 1..Len(history)}
           correlated == {t \in entries : FirstMatch(t) # ""}
       IN  IF history = <<>>
           THEN Exit(1) /\ UNCHANGED <<current_version, version, gh, status_indicator, pollVars>>
           ELSE /\ current_version' = history[1]
                /\ IF version # EmptyStr
                   THEN UNCHANGED <<gh, status_indicator, pollVars>>
                   ELSE \E installed \in BOOLEAN, unanswered \in SUBSET correlated :
                          /\ correlated = {} => installed = gh
                          /\ ~installed => unanswered = {}
                          /\ gh' = installed
                          /\ status_indicator' =
                               [t \in entries |->
                                  StatusIndicator(check_deployment_status(
                                      t, installed, t \notin unanswered))]
                /\ IF version # EmptyStr
                   THEN pc' = "rb_validate" /\ UNCHANGED <<version, exit_code>>
                   ELSE \E choice \in 0..(Len(history) + 1) :
                          IF choice > Len(history)
                          THEN Exit(1) /\ UNCHANGED version
                          ELSE /\ version' = Garbled
                               /\ pc' = "rb_validate"
                               /\ UNCHANGED exit_code
    /\ UNCHANGED <<world, script, environment, deployVars, ops, gate,
                   skip_confirm, show_history, SERVICE_NAME, new_tag,
                   message>>
    /\ UNCHANGED <<check_count, queries, workflow_found, workflow_status,
                   workflow_conclusion, run, printed, listed, old_run,
                   workflow_id, pollVars>>

\* "Validate version exists"
RollbackValidate ==
    /\ pc = "rb_validate"
    /\ IF RevParses(version)
       THEN pc' = "rb_confirm" /\ UNCHANGED exit_code
       ELSE Exit(1)
    /\ UNCHANGED <<world, script, environment, deployVars, ops, gate, rollbackVars>>
    /\ UNCHANGED monitorVars

\* confirm_rollback, unless --skip-confirm
ConfirmRollback ==
    /\ pc = "rb_confirm"
    /\ \E sc \in BOOLEAN, yes \in BOOLEAN :
         /\ skip_confirm' = sc
         /\ sc => yes
         /\ IF sc \/ yes
            THEN pc' = "rb_perform" /\ UNCHANGED <<exit_code, gate>>
            ELSE Decline("rollback", 0)
    /\ UNCHANGED <<world, script, environment, deployVars, ops, version,
                   show_history, SERVICE_NAME, current_version, new_tag,
                   message>>
    /\ UNCHANGED monitorVars

\* perform_rollback: git tag -a "$new_tag" "$commit"; git push origin
\* "$new_tag"; the monitoring of the run follows an accepted push.
\* now is $(date +%s).
perform_rollback ==
    /\ pc = "rb_perform"
    /\ \E now \in 0..MaxClock :
       LET tag == RollbackTag(environment, version, now)
           commit == RevList(version)
       IN  /\ new_tag' = tag
           /\ \E configured \in BOOLEAN :
                message' = RollbackMessage(version, environment, configured)
           /\ IF tag = EmptyStr \/ commit = NoCommit \/ tag \in DOMAIN tags
              THEN Exit(128) /\ UNCHANGED <<tags, remote, ops>>
              ELSE \E pushed \in BOOLEAN :
                     /\ pushed => PushAccepted(tag, FALSE)
                     /\ tags' = Put(tags, tag, commit)
                     /\ remote' = IF pushed THEN Put(remote, tag, commit) ELSE remote
                     /\ ops' = ops \o <<"tag_create">>
                                   \o (IF pushed THEN <<"push">> ELSE <<"push_failed">>)
                     /\ IF pushed
                        THEN pc' = "rb_monitor" /\ UNCHANGED exit_code
                        ELSE Exit(1)
    /\ UNCHANGED <<head, pkg, peer, script, environment, deployVars, gate, version,
                   skip_confirm, show_history, SERVICE_NAME, current_version>>
    /\ UNCHANGED monitorVars

(***************************************************************************)
(* Run Monitor: the tail of deploy_version and monitor_github_actions, one *)
(* loop iteration per step, and the workflow run on GitHub it observes.    *)
(* printed holds what the monitor has told the operator: "NOT_FOUND"       *)
(* (workflow not found), "SUCCESS" (Deployment completed successfully),    *)
(* "FAILURE" (Deployment failed with status), "TIMEOUT" (Monitoring        *)
(* timeout - deployment is still running) and "MANUAL_URL" (Monitor        *)
(* manually at / Continue monitoring at / Monitor deployment: <URL>).      *)
(* listed holds the headBranch values gh run list has answered with.       *)
(***************************************************************************)
\* while [ $check_count -lt 10 ]: the iterations of the discovery loop
DiscoveryChecks == 10

\* local max_checks=60
max_checks == 60

\* the tag deploy_version pushed and hands to monitor_github_actions
PushedTag ==
    IF script = "rollback" THEN new_tag
    ELSE IF script = "v2" THEN DeployTag_v2(new_version, environment)
    ELSE DeployTag(new_version, environment)

\* GitHub starts a workflow run
RunTriggered ==
    /\ pc \in {"monitor", "await_start", "rb_monitor"}
    /\ run.status = "none"
    /\ \E ref \in RunRefs(PushedTag) :
         run' = [headBranch |-> ref, status |-> "queued", conclusion |-> ""]
    /\ UNCHANGED <<world, script, pc, environment, deployVars, exit_code, ops,
                   gate, rollbackVars, gh, check_count, queries,
                   workflow_found, workflow_status, workflow_conclusion,
                   printed, listed, old_run, workflow_id, status_indicator, pollVars>>

\* the run goes on: it starts, or it ends with a conclusion
RunProgresses ==
    /\ pc \in {"monitor", "await_start", "poll", "watch", "rb_monitor", "rb_watch"}
    /\ run.status \in {"queued", "in_progress"}
    /\ \/ /\ run.status = "queued"
          /\ run' = [run EXCEPT !.status = "in_progress"]
       \/ \E c \in {"success", "failure", "cancelled"} :
            run' = [run EXCEPT !.status = "completed", !.conclusion = c]
    /\ UNCHANGED <<world, script, pc, environment, deployVars, exit_code, ops,
                   gate, rollbackVars, gh, check_count, queries,
                   workflow_found, workflow_status, workflow_conclusion,
                   printed, listed, old_run, workflow_id, status_indicator, pollVars>>

\* perform_rollback, "Monitor deployment", by its outcome: monitoring is
\* skipped or finds no run, or the run it watched ends in success or in
\* anything else; each outcome returns to main, which ends with exit 0.  Its
\* steps are RollbackMonitor and RollbackWatch (RollbackRunsSpec).
MonitorRollback ==
    /\ pc = "rb_monitor"
    /\ \E outcome \in {"skipped", "not_found", "success", "failure"} : Exit(0)
    /\ UNCHANGED <<world, script, environment, deployVars, ops, gate, rollbackVars>>
    /\ UNCHANGED monitorVars

\* perform_rollback, "Monitor deployment": without gh nothing is monitored;
\* with gh the run of the new tag is looked up once, five seconds after the
\* push.  local workflow_id=$(...) hides a failing gh or jq, which leaves
\* the id empty.  Without a run the script prints where to look.  main then
\* prints "Rollback Complete!" and ends with exit 0.
RollbackMonitor ==
    /\ pc = "rb_monitor"
    /\ \E installed \in BOOLEAN, answered \in BOOLEAN :
         LET found == IF answered THEN FirstMatch(new_tag) ELSE ""
         IN  /\ ~installed => answered
             /\ gh' = installed
             /\ IF ~installed
                THEN Exit(0) /\ UNCHANGED <<queries, workflow_found,
                                            workflow_id, printed, listed>>
                ELSE /\ queries' = queries + 1
                     /\ listed' = IF answered
                                  THEN {r.headBranch : r \in {x \in {run, old_run} :
                                                                x.status # "none"}}
                                  ELSE listed
                     /\ workflow_id' = found
                     /\ IF found # ""
                        THEN /\ workflow_found' = TRUE
                             /\ pc' = "rb_watch"
                             /\ UNCHANGED <<exit_code, printed>>
                        ELSE /\ printed' = printed \cup {"NOT_FOUND", "MANUAL_URL"}
                             /\ Exit(0)
                             /\ UNCHANGED workflow_found
    /\ UNCHANGED <<world, script, environment, deployVars, ops, gate,
                   rollbackVars, check_count, workflow_status,
                   workflow_conclusion, run, old_run, status_indicator, pollVars>>

\* perform_rollback, "Watch the run" and "Get final status": gh run watch
\* returns when the run has ended, or fails at any time (|| true); the
\* conclusion is read with gh run view, whose failure local hides and which
\* then leaves jq nothing to print.  Either message is followed by the
\* return to main, which ends with exit 0.
RollbackWatch ==
    /\ pc = "rb_watch"
    /\ \E watched \in BOOLEAN, answered \in BOOLEAN :
         /\ watched => Watched.status = "completed"
         /\ workflow_conclusion' = IF answered THEN Conclusion(Watched) ELSE ""
         /\ workflow_status' = IF answered THEN Watched.status ELSE workflow_status
         /\ printed' = printed \cup (IF workflow_conclusion' = "success"
                                     THEN {"SUCCESS"} ELSE {"FAILURE"})
    /\ Exit(0)
    /\ UNCHANGED <<world, script, environment, deployVars, ops, gate,
                   rollbackVars, gh, check_count, queries, workflow_found,
                   run, old_run, listed, workflow_id, status_indicator, pollVars>>

\* deploy_version after the push: monitor when MONITOR_DEPLOYMENT is true
\* (v3.0: and gh is installed), else print where to look and return to main,
\* which ends with exit 0
MonitorStart ==
    /\ pc = "monitor"
    /\ \E MONITOR_DEPLOYMENT \in BOOLEAN, installed \in BOOLEAN :
         /\ gh' = installed
         /\ IF MONITOR_DEPLOYMENT /\ (script = "v2" \/ installed)
            THEN pc' = "await_start" /\ UNCHANGED <<exit_code, printed>>
            ELSE Exit(0) /\ printed' = printed \cup {"MANUAL_URL"}
    /\ UNCHANGED <<world, script, environment, deployVars, ops, gate,
                   rollbackVars, check_count, queries, workflow_found,
                   workflow_status, workflow_conclusion, run, listed, old_run,
                   workflow_id, status_indicator, pollVars>>

\* one iteration of "Wait for workflow to start": gh run list | jq | head -n 1
\* (scripts/deploy.sh: only if gh is installed); a failing gh run list gives
\* an empty answer. A match ends the loop; after the last iteration without
\* one the monitor prints the manual URL and returns, and main ends with
\* exit 0.
AwaitStart ==
    /\ pc = "await_start"
    /\ \E answered \in BOOLEAN :
         LET asks == script = "v3" \/ gh
             found == IF asks /\ answered THEN FirstMatch(PushedTag) ELSE ""
             match == found # ""
         IN  /\ queries' = IF asks THEN queries + 1 ELSE queries
             /\ listed' = IF asks /\ answered
                          THEN listed \cup {r.headBranch : r \in {r \in {run, old_run} :
                                                                   r.status # "none"}}
                          ELSE listed
             /\ workflow_id' = found
             /\ IF match
                THEN /\ workflow_found' = TRUE
                     /\ workflow_status' = RunOf(found).status
                     /\ check_count' = IF script = "v2" THEN 0 ELSE check_count + 1
                     /\ pc' = IF script = "v2" THEN "poll" ELSE "watch"
                     /\ UNCHANGED <<exit_code, printed>>
                ELSE /\ check_count' = check_count + 1
                     /\ UNCHANGED <<workflow_found, workflow_status>>
                     /\ IF check_count + 1 < DiscoveryChecks
                        THEN UNCHANGED <<pc, exit_code, printed>>
                        ELSE /\ printed' = printed \cup {"NOT_FOUND", "MANUAL_URL"}
                             /\ Exit(0)
    /\ UNCHANGED <<world, script, environment, deployVars, ops, gate,
                   rollbackVars, gh, workflow_conclusion, run, old_run,
                   status_indicator, pollVars>>

\* "Only update display if status changed" that prints on every poll
StatusLinesAlways(lines, last, status) == Append(lines, status)

\* "Only update display if status changed": the Status: lines printed so
\* far, with the line of this poll when the status is not last_status
StatusLines(lines, last, status) ==
    IF status # last THEN Append(lines, status) ELSE lines

\* one iteration of "Monitor the workflow" (scripts/deploy.sh): gh run view.
\* Under set -e a failing gh run view ends the script with gh's status at
\* the assignment, before the test of $?. A completed run ends the loop,
\* with exit 1 unless its conclusion is success; after the loop the timeout
\* is printed when check_count equals max_checks.
PollStatus ==
    /\ pc = "poll"
    /\ check_count' = check_count + 1
    /\ \E answered \in BOOLEAN :
         IF ~answered
         THEN Exit(1) /\ UNCHANGED <<workflow_status, workflow_conclusion, printed,
                                     pollVars>>
         ELSE /\ workflow_status' = Watched.status
              /\ workflow_conclusion' = Conclusion(Watched)
              /\ status_lines' = StatusLines(status_lines, last_status, Watched.status)
              /\ last_status' = Watched.status
              /\ LET timeout == IF check_count' = max_checks
                                THEN {"TIMEOUT", "MANUAL_URL"} ELSE {}
                 IN  IF Watched.status = "completed"
                     THEN IF Watched.conclusion = "success"
                          THEN printed' = printed \cup {"SUCCESS"} \cup timeout /\ Exit(0)
                          ELSE printed' = printed \cup {"FAILURE"} /\ Exit(1)
                     ELSE IF check_count' < max_checks
                          THEN UNCHANGED <<pc, exit_code, printed>>
                          ELSE printed' = printed \cup timeout /\ Exit(0)
    /\ UNCHANGED <<world, script, environment, deployVars, ops, gate,
                   rollbackVars, gh, queries, workflow_found, run, listed,
                   old_run, workflow_id, status_indicator>>

\* FinalStatus that reports a run that did not succeed and goes on
FinalStatusWithoutExit ==
    \E answered \in BOOLEAN :
        IF ~answered
        THEN Exit(1) /\ UNCHANGED <<workflow_conclusion, printed>>
        ELSE /\ workflow_conclusion' = Conclusion(Watched)
             /\ IF Watched.conclusion = "success"
                THEN printed' = printed \cup {"SUCCESS"} /\ Exit(0)
                ELSE printed' = printed \cup {"FAILURE"} /\ Exit(0)

\* "Get final status" (v3.0): gh run view, then the test of the conclusion.
\* Under set -e a failing gh run view ends the script with gh's status.
FinalStatus ==
    \E answered \in BOOLEAN :
        IF ~answered
        THEN Exit(1) /\ UNCHANGED <<workflow_conclusion, printed>>
        ELSE /\ workflow_conclusion' = Conclusion(Watched)
             /\ IF Watched.conclusion = "success"
                THEN printed' = printed \cup {"SUCCESS"} /\ Exit(0)
                ELSE printed' = printed \cup {"FAILURE"} /\ Exit(1)

\* gh run watch returns because the run has ended (v3.0)
WatchRun ==
    /\ pc = "watch"
    /\ Watched.status = "completed"
    /\ FinalStatus
    /\ UNCHANGED <<world, script, environment, deployVars, ops, gate,
                   rollbackVars, gh, check_count, queries, workflow_found,
                   workflow_status, run, listed, old_run, workflow_id,
                   status_indicator, pollVars>>

\* WatchFails that takes the pushed tag back, locally and on the remote
WatchFailsWithCleanup ==
    /\ pc = "watch"
    /\ Watched.status # "completed"
    /\ FinalStatus
    /\ tags' = Drop(tags, PushedTag)
    /\ remote' = Drop(remote, PushedTag)
    /\ UNCHANGED <<head, pkg, peer, script, environment, deployVars, ops, gate,
                   rollbackVars, gh, check_count, queries, workflow_found,
                   workflow_status, run, listed, old_run, workflow_id,
                   status_indicator, pollVars>>

\* gh run watch fails while the run has not ended, and "|| true" lets the
\* script go on to "Get final status" (v3.0)
WatchFails ==
    /\ pc = "watch"
    /\ Watched.status # "completed"
    /\ FinalStatus
    /\ UNCHANGED <<world, script, environment, deployVars, ops, gate,
                   rollbackVars, gh, check_count, queries, workflow_found,
                   workflow_status, run, listed, old_run, workflow_id,
                   status_indicator, pollVars>>

(***************************************************************************)
(* Specification.                                                          *)
(***************************************************************************)
Next ==
    \/ DeployStart
    \/ CheckGitStatus
    \/ CheckBranch
    \/ FetchTags
    \/ DetermineVersion
    \/ DetermineVersion_v2
    \/ ConfirmProduction
    \/ Preview
    \/ BumpPackageJson
    \/ DeployVersion
    \/ DeployVersion_v2
    \/ MonitorDeployment
    \/ RollbackStart
    \/ RollbackSelect
    \/ RollbackValidate
    \/ ConfirmRollback
    \/ perform_rollback
    \/ MonitorRollback

Spec == Init /\ [][Next]_vars

\* the state in which deploy_version has pushed its tag: `deploy.sh <env>
\* --version 1.0.0` in a repository without tags
InitMonitor ==
    /\ script \in {"v2", "v3"}
    /\ environment \in
         {"dev", "staging", IF script = "v2" THEN "production" ELSE "prod"}
    /\ pc = "monitor"
    /\ increment_type = "patch"
    /\ specific_version = V(1, 0, 0)
    /\ rebuild_mode = FALSE
    /\ preview_mode = FALSE
    /\ latest_tag = (IF script = "v2" THEN EmptyStr
                     ELSE get_latest_version(environment, {}))
    /\ new_version = V(1, 0, 0)
    /\ version_choice = 0
    /\ collision_choice = 0
    /\ exit_code = 0
    /\ ops = <<"tag_create", "push">>
    /\ gate = "none"
    /\ confirmed = (script = "v3" /\ IsProduction(environment))
    /\ hotfix = FALSE
    /\ version = EmptyStr
    /\ skip_confirm = FALSE
    /\ show_history = FALSE
    /\ SERVICE_NAME = ""
    /\ current_version = EmptyStr
    /\ new_tag = EmptyStr
    /\ message = NoMessage
    /\ head \in {0, 1}
    /\ pkg = EmptyStr
    /\ peer = NoPeer
    /\ tags = [t \in {PushedTag} |-> head]
    /\ remote = tags
    /\ MonitorIdle

NextMonitor ==
    \/ MonitorStart
    \/ AwaitStart
    \/ PollStatus
    \/ WatchRun
    \/ WatchFails
    \/ RunTriggered
    \/ RunProgresses

MonitorSpec == InitMonitor /\ [][NextMonitor]_vars

\* the steps the script takes by itself: bash runs its next command, and
\* gh run watch returns once the run has ended.  That GitHub starts or ends
\* a run, or that gh run watch fails, is not promised.
MonitorStep ==
    \/ MonitorStart
    \/ AwaitStart
    \/ PollStatus
    \/ WatchRun

FairMonitorSpec == MonitorSpec /\ WF_vars(MonitorStep)

\* the state in which deploy_version has pushed a rebuilt tag: `deploy.sh
\* <env> --rebuild` (v3.0) in a repository whose latest tag of the
\* environment is v1.0.0[-dev|-staging].  GitHub holds the workflow run of an
\* earlier push of that tag, which has ended.
InitRebuildMonitor ==
    /\ script = "v3"
    /\ environment \in {"dev", "staging", "prod"}
    /\ pc = "monitor"
    /\ increment_type = "patch"
    /\ specific_version = EmptyStr
    /\ rebuild_mode = TRUE
    /\ preview_mode = FALSE
    /\ latest_tag = DeployTag(V(1, 0, 0), environment)
    /\ new_version = V(1, 0, 0)
    /\ version_choice = 0
    /\ collision_choice = 0
    /\ exit_code = 0
    /\ ops = <<"tag_delete", "remote_delete", "tag_create", "push">>
    /\ gate = "none"
    /\ confirmed = IsProduction(environment)
    /\ hotfix = FALSE
    /\ version = EmptyStr
    /\ skip_confirm = FALSE
    /\ show_history = FALSE
    /\ SERVICE_NAME = ""
    /\ current_version = EmptyStr
    /\ new_tag = EmptyStr
    /\ message = NoMessage
    /\ head \in {0, 1}
    /\ pkg = EmptyStr
    /\ peer = NoPeer
    /\ tags = [t \in {latest_tag} |-> head]
    /\ remote = tags
    /\ MonitorLocals
    /\ run = NoRun
    /\ old_run \in {[headBranch |-> ref, status |-> "completed", conclusion |-> c] :
                      ref \in {Ref("", latest_tag), Ref("refs/tags/", latest_tag)},
                      c \in {"success", "failure"}}

NextRebuildMonitor ==
    \/ MonitorStart
    \/ AwaitStart
    \/ WatchRun
    \/ WatchFails
    \/ RunTriggered
    \/ RunProgresses

RebuildMonitorSpec == InitRebuildMonitor /\ [][NextRebuildMonitor]_vars

\* rollback.sh past its staging guard, in a repository whose tags earlier
\* deployments created and pushed; GitHub may hold the run of one of them,
\* ended or still going, by the name of its tag, by its full reference, or
\* of a branch
RollbackRunTags ==
    {DeployTag(v, e) : v \in {V(0, 0, 1), V(1, 0, 0)}, e \in {"dev", "staging", "production"}}

InitRollbackRuns ==
    /\ script = "rollback"
    /\ pc = "rb_history"
    /\ environment \in {"development", "staging", "production"}
    /\ increment_type = "patch"
    /\ specific_version = EmptyStr
    /\ rebuild_mode = FALSE
    /\ preview_mode = FALSE
    /\ latest_tag = EmptyStr
    /\ new_version = EmptyStr
    /\ version_choice = 0
    /\ collision_choice = 0
    /\ exit_code = 0
    /\ ops = <<>>
    /\ gate = "none"
    /\ confirmed = FALSE
    /\ hotfix = FALSE
    /\ version \in {EmptyStr} \cup {t \in RollbackRunTags : t.ver = V(1, 0, 0).ver}
    /\ skip_confirm = FALSE
    /\ show_history = FALSE
    /\ SERVICE_NAME = "karma-merchant-api"
    /\ current_version = EmptyStr
    /\ new_tag = EmptyStr
    /\ message = NoMessage
    /\ head = 0
    /\ pkg = EmptyStr
    /\ peer = NoPeer
    /\ tags = [t \in RollbackRunTags |-> 0]
    /\ remote = tags
    /\ MonitorLocals
    /\ run = NoRun
    /\ old_run \in {NoRun} \cup
                   {[headBranch |-> ref, status |-> st.s, conclusion |-> st.c] :
                      ref \in UNION {RunRefs(t) : t \in {x \in RollbackRunTags :
                                                           x.ver = V(1, 0, 0).ver}},
                      st \in {[s |-> "in_progress", c |-> ""],
                              [s |-> "completed", c |-> "success"],
                              [s |-> "completed", c |-> "failure"]}}

NextRollbackRuns ==
    \/ RollbackSelect
    \/ RollbackValidate
    \/ ConfirmRollback
    \/ perform_rollback
    \/ RollbackMonitor
    \/ RollbackWatch
    \/ RunTriggered
    \/ RunProgresses

RollbackRunsSpec == InitRollbackRuns /\ [][NextRollbackRuns]_vars

(***************************************************************************)
(* Two operators.  The other operator runs the same script in a clone of   *)
(* their own, which held the same tags when both started; of that          *)
(* invocation the model keeps the tag it created and whether origin        *)
(* accepted its push.                                                      *)
(***************************************************************************)
\* the commit the other operator has checked out
PeerCommit == 2

\* $(date +%s) as it stands at the end of a rollback marker
Timestamp(t) == t.suf[Len(t.suf)].n

\* the other operator's deploy_version, non-rebuild: their clone has no tag
\* of the name, so git tag -a creates it at their commit; git push origin
\* "$tag" is rejected when origin holds the tag by then
PeerDeploys ==
    /\ script \in {"v2", "v3"}
    /\ pc \in {"deploy", "monitor", "done"}
    /\ ~rebuild_mode
    /\ peer = NoPeer
    /\ LET tag == PushedTag
           pushed == PushAccepted(tag, FALSE)
       IN  /\ peer' = [tag |-> tag, pushed |-> pushed, after |-> tag \in DOMAIN tags]
           /\ remote' = IF pushed THEN Put(remote, tag, PeerCommit) ELSE remote
    /\ UNCHANGED <<tags, head, pkg, script, pc, environment, deployVars,
                   exit_code, ops, gate, rollbackVars>>
    /\ UNCHANGED monitorVars

\* the other operator's perform_rollback to the same target: the marker is
\* named by their clock, which is not behind a marker made before
PeerRollback ==
    /\ script = "rollback"
    /\ pc \in {"rb_perform", "rb_monitor", "done"}
    /\ peer = NoPeer
    /\ \E now \in 0..MaxClock :
         LET tag == RollbackTag(environment, version, now)
             pushed == PushAccepted(tag, FALSE)
         IN  /\ new_tag # EmptyStr => now >= Timestamp(new_tag)
             /\ peer' = [tag |-> tag, pushed |-> pushed, after |-> new_tag # EmptyStr]
             /\ remote' = IF pushed THEN Put(remote, tag, RevList(version)) ELSE remote
    /\ UNCHANGED <<tags, head, pkg, script, pc, environment, deployVars,
                   exit_code, ops, gate, rollbackVars>>
    /\ UNCHANGED monitorVars

\* deploy_version about to run for a version given with --version, after
\* git fetch --tags found no tag of its name; or perform_rollback about to
\* run for the newest tag of the environment
InitRace ==
    /\ increment_type = "patch"
    /\ rebuild_mode = FALSE
    /\ preview_mode = FALSE
    /\ version_choice = 0
    /\ collision_choice = 0
    /\ exit_code = 0
    /\ ops = <<>>
    /\ gate = "none"
    /\ hotfix = FALSE
    /\ show_history = FALSE
    /\ new_tag = EmptyStr
    /\ message = NoMessage
    /\ head \in {0, 1}
    /\ pkg = EmptyStr
    /\ peer = NoPeer
    /\ MonitorIdle
    /\ \/ /\ script \in {"v2", "v3"}
          /\ pc = "deploy"
          /\ environment \in {"dev", "staging", "production"}
          /\ specific_version \in {V(1, 0, 0), V(1, 0, 1)}
          /\ new_version = specific_version
          /\ latest_tag = DeployTag(V(0, 0, 1), environment)
          /\ confirmed = IsProduction(environment)
          /\ version = EmptyStr
          /\ skip_confirm = FALSE
          /\ SERVICE_NAME = ""
          /\ current_version = EmptyStr
          /\ \E S \in SUBSET {DeployTag(V(1, 0, 0), e) : e \in {"dev", "staging"}} :
                tags = [t \in S \cup {latest_tag} |-> 0]
          /\ remote = tags
          /\ PushedTag \notin DOMAIN tags
       \/ /\ script = "rollback"
          /\ pc = "rb_perform"
          /\ environment \in {"development", "staging", "production"}
          /\ specific_version = EmptyStr
          /\ new_version = EmptyStr
          /\ latest_tag = EmptyStr
          /\ confirmed = FALSE
          /\ skip_confirm \in BOOLEAN
          /\ SERVICE_NAME = "karma-merchant-api"
          /\ tags = [t \in RollbackRunTags |-> 0]
          /\ remote = tags
          /\ current_version = get_deployment_history(environment, DOMAIN tags)[1]
          /\ version \in {t \in DOMAIN tags :
                             \E i \in 1..Len(get_deployment_history(environment, DOMAIN tags)) :
                                 get_deployment_history(environment, DOMAIN tags)[i] = t}

\* the clock of perform_rollback is not behind a marker made before
ClockNotBehind == peer # NoPeer => Timestamp(new_tag') >= Timestamp(peer.tag)

NextRace ==
    \/ DeployVersion
    \/ DeployVersion_v2
    \/ PeerDeploys
    \/ perform_rollback /\ ClockNotBehind
    \/ PeerRollback

RaceSpec == InitRace /\ [][NextRace]_vars

(***************************************************************************)
(* increment_version as a function of its two arguments.                   *)
(***************************************************************************)
\* the second argument: the three kinds of the case, a word that is none of
\* them, and the empty string of a missing argument
IncrementKinds == {"major", "minor", "patch", "build", ""}

\* a call increment_version "$version" "$increment_type" about to be made
InitIncrement ==
    /\ script \in {"v2", "v3"}
    /\ pc = "increment"
    /\ environment = "dev"
    /\ increment_type \in IncrementKinds
    /\ specific_version = EmptyStr
    /\ rebuild_mode = FALSE
    /\ preview_mode = FALSE
    /\ latest_tag \in InitialTags \cup {SeedTag}
    /\ new_version = EmptyStr
    /\ version_choice = 0
    /\ collision_choice = 0
    /\ exit_code = 0
    /\ ops = <<>>
    /\ gate = "none"
    /\ confirmed = FALSE
    /\ hotfix = FALSE
    /\ version = EmptyStr
    /\ skip_confirm = FALSE
    /\ show_history = FALSE
    /\ SERVICE_NAME = ""
    /\ current_version = EmptyStr
    /\ new_tag = EmptyStr
    /\ message = NoMessage
    /\ head = 0
    /\ pkg = EmptyStr
    /\ peer = NoPeer
    /\ tags = [t \in {latest_tag} |-> 0]
    /\ remote = tags
    /\ MonitorIdle

\* new_version=$(increment_version "$latest_version" "$increment_type"): the
\* function echoes a version and returns 0, unless $(( )) cannot read the
\* field it is to add one to
IncrementVersion ==
    /\ pc = "increment"
    /\ IF increment_fails(latest_tag, increment_type)
       THEN new_version' = EmptyStr /\ Exit(1)
       ELSE /\ new_version' = IF script = "v2"
                              THEN increment_version_v2(latest_tag, increment_type)
                              ELSE increment_version(latest_tag, increment_type)
            /\ Exit(0)
    /\ UNCHANGED <<world, script, environment, increment_type, specific_version,
                   rebuild_mode, preview_mode, latest_tag, version_choice,
                   collision_choice, ops, gate, confirmed, hotfix, rollbackVars>>
    /\ UNCHANGED monitorVars

NextIncrement == IncrementVersion

IncrementSpec == InitIncrement /\ [][NextIncrement]_vars

(***************************************************************************)
(* The tag grammar taken both ways: `deploy.sh <env> --version X.Y.Z`      *)
(* (v3.0) in a repository without tags renders and creates its tag, and    *)
(* the next invocation for the environment resolves the latest tag and     *)
(* strips it to the current version.                                       *)
(***************************************************************************)
\* the numerals of the version fields, one of them with a leading zero
GrammarNumerals == {<<0>>, <<1>>, <<1, 0>>, <<0, 9>>}

GrammarVersions ==
    {Str("", <<a, b, c>>, <<>>) : a \in GrammarNumerals, b \in GrammarNumerals,
                                  c \in GrammarNumerals}

GrammarEnvs == {"dev", "staging", "prod", "production"}

InitGrammar ==
    /\ script = "v3"
    /\ environment \in GrammarEnvs
    /\ pc = "deploy"
    /\ increment_type = "patch"
    /\ specific_version \in GrammarVersions
    /\ rebuild_mode = FALSE
    /\ preview_mode = FALSE
    /\ latest_tag = get_latest_version(environment, {})
    /\ new_version = specific_version
    /\ version_choice = 0
    /\ collision_choice = 0
    /\ exit_code = 0
    /\ ops = <<>>
    /\ gate = "none"
    /\ confirmed = IsProduction(environment)
    /\ hotfix = (environment = "production")
    /\ version = EmptyStr
    /\ skip_confirm = FALSE
    /\ show_history = FALSE
    /\ SERVICE_NAME = ""
    /\ current_version = EmptyStr
    /\ new_tag = EmptyStr
    /\ message = NoMessage
    /\ head = 0
    /\ pkg = EmptyStr
    /\ peer = NoPeer
    /\ tags = NoTags
    /\ remote = NoTags
    /\ MonitorIdle

\* main of the next invocation for the environment, from "Determine
\* version" to the current version it shows: get_latest_version and the
\* two strips
ResolveCurrentVersion ==
    /\ pc \in {"monitor", "done"}
    /\ DOMAIN tags # {}
    /\ current_version = EmptyStr
    /\ latest_tag' = get_latest_version(environment, DOMAIN tags)
    /\ current_version' = VersionOfTag(latest_tag')
    /\ UNCHANGED <<world, script, pc, environment, increment_type,
                   specific_version, rebuild_mode, preview_mode, new_version,
                   version_choice, collision_choice, exit_code, ops, gate,
                   confirmed, hotfix, version, skip_confirm, show_history,
                   SERVICE_NAME, new_tag, message>>
    /\ UNCHANGED monitorVars

NextGrammar ==
    \/ DeployVersion
    \/ ResolveCurrentVersion

GrammarSpec == InitGrammar /\ [][NextGrammar]_vars

(***************************************************************************)
(* Properties.                                                             *)
(***************************************************************************)
Deploying == script \in {"v2", "v3"}

\* the tag the running deploy renders from its version and environment
RenderedTag ==
    IF script = "v3" THEN DeployTag(new_version, environment)
    ELSE DeployTag_v2(new_version, environment)

\* the tag t of f is in g and points at the same commit
Kept(f, g, t) == t \in DOMAIN f => (t \in DOMAIN g /\ g[t] = f[t])

Did(op) == \E i \in 1..Len(ops) : ops[i] = op

\* the running deploy resolved its version by incrementing the latest one:
\* no --version, no custom version, no rebuild
Incremented ==
    /\ Deploying
    /\ pc \in {"confirm", "preview", "bump", "deploy", "monitor"}
    /\ specific_version = EmptyStr
    /\ ~rebuild_mode
    /\ script = "v3" => VersionMenu(version_choice) \in {"patch", "minor", "major"}

\* C1: a deploy that uses neither an explicit version nor rebuild resolves a
\* version strictly greater than the latest version of its environment.
C1_VersionMonotone ==
    Incremented => VLess(VersionOfTag(latest_tag), new_version)

\* C1, the state that refutes it: the major increment of 010.0.0 is 9.0.0
C1_Witness ==
    /\ Incremented
    /\ environment = "dev"
    /\ VersionOfTag(latest_tag) = Str("", <<<<0, 1, 0>>, <<0>>, <<0>>>>, <<>>)
    /\ new_version = V(9, 0, 0)
    /\ Did("push")

\* C2: a production deploy (hotfix included) in which the operator has not
\* typed the exact confirmation string never creates a local tag and never
\* pushes a tag.
C2_NoTagWithoutConfirmation ==
    (Deploying /\ IsProduction(environment) /\ ~confirmed)
        => (~Did("tag_create") /\ ~Did("push"))

\* C2, the state that refutes it: scripts/deploy.sh has pushed a production
\* tag and no confirmation string was typed
C2_Witness ==
    /\ script = "v2"
    /\ environment = "production"
    /\ ~confirmed
    /\ Did("tag_create")
    /\ RenderedTag \in DOMAIN remote
    /\ Did("push")

\* C3: in a non-rebuild deploy whose rendered tag already exists, the tag is
\* deleted or re-pointed, locally or on the remote, only if the operator
\* answers the collision menu with 1 (force rebuild); after any other answer
\* it still points at its original commit.
C3_NoSilentOverwrite ==
    [][(/\ Deploying
        /\ pc = "deploy"
        /\ ~rebuild_mode
        /\ RenderedTag \in DOMAIN tags \cup DOMAIN remote
        /\ ~(script = "v3" /\ collision_choice' = 1))
       => /\ Kept(tags, tags', RenderedTag)
          /\ Kept(remote, remote', RenderedTag)
          /\ ~Did("tag_delete")' /\ ~Did("remote_delete")']_vars

\* C3: the collision menu was answered with an unrecognized choice while
\* the tag pointed at another commit than the one checked out
C3_Witness ==
    /\ script = "v3"
    /\ pc = "done"
    /\ ~rebuild_mode
    /\ collision_choice = 4
    /\ RenderedTag \in DOMAIN tags
    /\ tags[RenderedTag] # head

\* the version track of an environment name of either deploy script
TrackOf(env) ==
    IF IsProduction(env) THEN "production"
    ELSE IF env = "staging" THEN "staging" ELSE "dev"

\* C4: a deploy or rebuild for one environment leaves the latest version of
\* every other environment unchanged.
C4_TracksIndependent ==
    [][(Deploying /\ pc = "deploy")
       => \A e \in {"dev", "staging", "production"} \ {TrackOf(environment)} :
            get_latest_version(e, DOMAIN tags') = get_latest_version(e, DOMAIN tags)]_vars

\* C4, the state that refutes it: a production deploy with --version
\* 1.0.0-dev has created the development tag v1.0.0-dev
C4_Witness ==
    /\ script = "v3"
    /\ environment = "prod"
    /\ confirmed
    /\ specific_version = Append2(V(1, 0, 0), <<Word("dev")>>)
    /\ Did("push")
    /\ get_latest_version("dev", DOMAIN remote) = RenderedTag

\* a step of deploy_version that rebuilds a tag the clone holds
RebuildsExisting ==
    /\ script = "v3"
    /\ pc = "deploy"
    /\ rebuild_mode \/ collision_choice' = 1
    /\ RenderedTag \in DOMAIN tags

\* C5: a rebuild of an existing tag keeps the tag string and every other
\* tag, and changes only the commit the tag points at, to the commit
\* checked out; the latest version of the environment is the same after the
\* rebuild as before it, and once the push has succeeded the remote tag
\* points at that commit too.
C5_RebuildKeepsTag ==
    [][RebuildsExisting
       => /\ tags' = [tags EXCEPT ![RenderedTag] = head]
          /\ get_latest_version(environment, DOMAIN tags')
               = get_latest_version(environment, DOMAIN tags)
          /\ \A t \in (DOMAIN remote \cup DOMAIN remote') \ {RenderedTag} :
               Kept(remote, remote', t) /\ Kept(remote', remote, t)
          /\ pc' = "monitor"
               => (RenderedTag \in DOMAIN remote' /\ remote'[RenderedTag] = head)]_vars

\* C5: a rebuild has moved an existing tag to a later commit
C5_Witness ==
    /\ script = "v3"
    /\ pc = "monitor"
    /\ rebuild_mode
    /\ Did("tag_delete")
    /\ head = 1
    /\ tags[RenderedTag] = head
    /\ remote[RenderedTag] = head
    /\ get_latest_version(environment, DOMAIN tags) = RenderedTag

\* C6: when the operator declines at a confirmation gate of a deploy (the
\* uncommitted-changes warning, the branch warning, the production
\* confirmation, the proceed prompt, answer 3 (Cancel) of the collision
\* menu), the invocation has created, deleted and pushed no tag and created
\* and pushed no commit.
C6_CancelBeforeMutation ==
    (/\ Deploying
     /\ \/ gate \in {"status", "branch", "production", "proceed"}
        \/ gate = "collision" /\ collision_choice = 3)
        => ops = <<>>

\* C6, the state that refutes it: the operator cancels at the collision
\* menu after the version-bump commit was made and pushed
C6_Witness ==
    /\ script = "v3"
    /\ gate = "collision"
    /\ collision_choice = 3
    /\ Did("commit")
    /\ Did("commit_push")
    /\ pkg = new_version

C8_StagingGuard ==
    (/\ script = "rollback"
     /\ ~show_history
     /\ environment = "staging"
     /\ SERVICE_NAME \notin staging_services)
        => (pc = "done" /\ exit_code # 0 /\ ops = <<>>)

\* C8: the guard has stopped a rollback to an existing staging tag
C8_Witness ==
    /\ script = "rollback"
    /\ environment = "staging"
    /\ SERVICE_NAME \notin staging_services
    /\ version \in DOMAIN tags
    /\ MatchesSuffix(version, "staging")
    /\ pc = "done"
    /\ exit_code = 1

\* C9: a rollback creates a tag only if its target is an existing tag of
\* the chosen environment (one the tool lists for it).
C9_TargetValidated ==
    (script = "rollback" /\ ops # <<>>)
        => version \in HistoryTags(environment, DOMAIN tags)

\* C9, the state that refutes it: a development rollback to the production
\* tag v1.0.0 has created and pushed v1.0.0-rollback-<now>
C9_Witness ==
    /\ script = "rollback"
    /\ environment = "development"
    /\ version = DeployTag_v2(V(1, 0, 0), "production")
    /\ pc = "done"
    /\ exit_code = 0
    /\ Did("push")

\* C10: a rollback to an existing tag T never changes T or any other
\* existing tag, and one that completes has created exactly one tag, named
\* T-rollback-<number>, at the commit of T, and pushed it once.
C10_RollbackCreatesOneTag ==
    [][(script = "rollback" /\ version \in DOMAIN tags)
       => /\ \A t \in DOMAIN tags : Kept(tags, tags', t)
          /\ \A t \in DOMAIN remote : Kept(remote, remote', t)
          /\ (pc = "rb_perform" /\ pc' = "rb_monitor")
               => \E n \in DOMAIN tags' \ DOMAIN tags :
                    /\ DOMAIN tags' = DOMAIN tags \cup {n}
                    /\ Len(n.suf) = Len(version.suf) + 2
                    /\ n.suf[Len(n.suf)].k = "num"
                    /\ n = Append2(version, <<Word("rollback"), n.suf[Len(n.suf)]>>)
                    /\ tags'[n] = tags[version]
                    /\ remote' = Put(remote, n, tags[version])
                    /\ ops' = <<"tag_create", "push">>]_vars

\* C10: a rollback to a tag of an earlier commit has completed
C10_Witness ==
    /\ script = "rollback"
    /\ pc = "done"
    /\ exit_code = 0
    /\ version \in DOMAIN tags
    /\ tags[version] # head
    /\ ops = <<"tag_create", "push">>
    /\ \E n \in DOMAIN remote \ {version} : remote[n] = tags[version]

\* C11: a production rollback creates or pushes a rollback tag only after
\* the operator has typed the confirmation; with --skip-confirm the script
\* never asks, so no confirmation has been typed.
C11_RollbackTypedConfirmation ==
    (/\ script = "rollback"
     /\ environment = "production"
     /\ (Did("tag_create") \/ Did("push")))
        => ~skip_confirm

\* C11: a production rollback run with --skip-confirm has created and
\* pushed its rollback tag
C11_Witness ==
    /\ script = "rollback"
    /\ environment = "production"
    /\ skip_confirm
    /\ pc = "done"
    /\ exit_code = 0
    /\ ops = <<"tag_create", "push">>
    /\ version \in DOMAIN tags

\* the attempts to push a tag that the invocation has made
PushAttempts == {i \in 1..Len(ops) : ops[i] \in {"push", "push_failed"}}

\* C12: once the push of the tag has failed the invocation has ended with a
\* non-zero exit, that push was its only attempt, and the monitor step is
\* entered only straight after a push that succeeded.
C12_PushFailureFatal ==
    /\ Did("push_failed")
         => /\ pc = "done"
            /\ exit_code # 0
            /\ Cardinality(PushAttempts) = 1
    /\ pc = "monitor"
         => /\ ops # <<>>
            /\ ops[Len(ops)] = "push"

\* C12: a deploy whose tag the remote did not take has ended
C12_Witness ==
    /\ script \in {"v2", "v3"}
    /\ pc = "done"
    /\ ops = <<"tag_create", "push_failed">>
    /\ PushedTag \in DOMAIN tags
    /\ PushedTag \notin DOMAIN remote

\* C13: once the monitor has read a terminal conclusion of the run it
\* watches, the invocation has ended: with SUCCESS printed, no FAILURE and
\* exit 0 when the conclusion is success, and with FAILURE printed, no
\* SUCCESS and a non-zero exit for every other conclusion.
C13_TerminalMapping ==
    workflow_conclusion \notin {"", "null"}
        => /\ pc = "done"
           /\ IF workflow_conclusion = "success"
              THEN /\ "SUCCESS" \in printed
                   /\ "FAILURE" \notin printed
                   /\ exit_code = 0
              ELSE /\ "FAILURE" \in printed
                   /\ "SUCCESS" \notin printed
                   /\ exit_code # 0

\* C13: the v3.0 monitor has read the conclusion cancelled of a run it found
\* under the tag's name
C13_Witness ==
    /\ script = "v3"
    /\ pc = "done"
    /\ workflow_found
    /\ run.headBranch = Ref("", PushedTag)
    /\ run.status = "completed"
    /\ workflow_conclusion = "cancelled"
    /\ exit_code = 1

\* C14: TIMEOUT is printed only when the monitor has not read a terminal
\* status, together with the manual URL, without FAILURE and with exit 0;
\* and it is printed when the invocation ends with exit 0 after max_checks
\* polls none of which read a terminal status.
C14_TimeoutExactly ==
    /\ "TIMEOUT" \in printed
         => /\ workflow_status # "completed"
            /\ "SUCCESS" \notin printed
            /\ "FAILURE" \notin printed
            /\ "MANUAL_URL" \in printed
            /\ pc = "done"
            /\ exit_code = 0
    /\ (/\ script = "v2"
        /\ pc = "done"
        /\ exit_code = 0
        /\ workflow_found
        /\ check_count = max_checks
        /\ workflow_status # "completed")
         => "TIMEOUT" \in printed

\* C14: the last poll of the budget read a run that had ended in success,
\* and the monitor printed SUCCESS and TIMEOUT
C14_Witness ==
    /\ script = "v2"
    /\ pc = "done"
    /\ exit_code = 0
    /\ check_count = max_checks
    /\ workflow_status = "completed"
    /\ workflow_conclusion = "success"
    /\ {"SUCCESS", "TIMEOUT"} \subseteq printed

\* C15: the Run Monitor terminates, whatever the run on GitHub does: the
\* invocation comes to its end even if the run never reaches a terminal
\* state, GitHub never starts one, or gh run watch never fails.
C15_MonitorTerminates == <>(pc = "done")

\* C15: the v3.0 monitor sits in gh run watch on a run that has not ended
C15_Witness ==
    /\ script = "v3"
    /\ pc = "watch"
    /\ workflow_found
    /\ run.status = "in_progress"
    /\ printed = {}

\* the references the discovery query is to match: the pushed tag by its
\* name and by refs/tags/<tag>
TagRefs == {Ref("", PushedTag), Ref("refs/tags/", PushedTag)}

\* C16: the monitor issues at most 10 discovery queries; it has found a run
\* exactly when gh run list has answered with a run whose reference is the
\* pushed tag's name or refs/tags/<tag>; NOT_FOUND is printed exactly when
\* the discovery loop has ended without a run found, with the manual URL,
\* and the invocation then ends with exit 0.
C16_AwaitStartBounded ==
    /\ queries <= DiscoveryChecks
    /\ pc = "await_start" => check_count < DiscoveryChecks
    /\ workflow_found <=> listed \cap TagRefs # {}
    /\ "NOT_FOUND" \in printed
         => /\ ~workflow_found
            /\ "MANUAL_URL" \in printed
            /\ pc = "done"
            /\ exit_code = 0
    /\ (pc = "done" /\ ~workflow_found /\ check_count > 0)
         => "NOT_FOUND" \in printed

\* C16: gh run list has answered with a run that carries the pushed tag's
\* name, and the scripts/deploy.sh monitor has ended in NOT_FOUND
C16_Witness ==
    /\ script = "v2"
    /\ pc = "done"
    /\ exit_code = 0
    /\ Ref("", PushedTag) \in listed
    /\ queries = DiscoveryChecks
    /\ "NOT_FOUND" \in printed

\* C17: once the tag is pushed, no step of monitoring, whatever its outcome,
\* deletes or moves the pushed tag (or any other), locally or on the remote.
C17_MonitorKeepsTag ==
    [][(Did("push") /\ PushedTag \in DOMAIN remote)
         => /\ \A t \in DOMAIN tags : Kept(tags, tags', t)
            /\ \A t \in DOMAIN remote : Kept(remote, remote', t)]_vars

\* C17: monitoring has ended in FAILURE with a non-zero exit, and the pushed
\* tag is where the push put it
C17_Witness ==
    /\ pc = "done"
    /\ exit_code = 1
    /\ "FAILURE" \in printed
    /\ workflow_found
    /\ PushedTag \in DOMAIN tags
    /\ PushedTag \in DOMAIN remote
    /\ tags[PushedTag] = head
    /\ remote[PushedTag] = head

\* the tags of names that carry exactly env's qualifier on a version X.Y.Z:
\* none for production, -staging, -dev
ExactTrack(env, names) ==
    {t \in names : /\ t.p = VERSION_PREFIX
                   /\ Len(t.ver) = 3
                   /\ t.suf = (IF env \in {"prod", "production"} THEN <<>>
                               ELSE <<Word(env)>>)}

\* (major, minor, patch) of a tag of a track
Triple(t) == <<DecValue(t.ver[1]), DecValue(t.ver[2]), DecValue(t.ver[3])>>

\* the (major, minor, patch) ordering
TripleLeq(a, b) ==
    \/ a[1] < b[1]
    \/ a[1] = b[1] /\ a[2] < b[2]
    \/ a[1] = b[1] /\ a[2] = b[2] /\ a[3] <= b[3]

\* C18: the latest version a deploy to E computes from the tag set T is that
\* of a tag of T carrying exactly E's qualifier whose (major, minor, patch)
\* is the greatest among such tags, and 0.0.0 when T has none; every other
\* tag of T is ignored.
C18_LatestIsMaximum ==
    [][(/\ pc = "determine"
        /\ environment \in {"dev", "staging", "prod", "production"}
        /\ latest_tag' # EmptyStr)
         => LET T == ExactTrack(environment, DOMAIN tags)
            IN  IF T = {}
                THEN VersionOfTag(latest_tag') = V(0, 0, 0)
                ELSE /\ latest_tag' \in T
                     /\ \A u \in T : TripleLeq(Triple(u), Triple(latest_tag'))]_vars

\* C18: a development deploy has computed 0.0.1 as the latest version of a
\* tag set that also holds the production tag v1.0.0
C18_Witness ==
    /\ script \in {"v2", "v3"}
    /\ environment = "dev"
    /\ latest_tag = DeployTag_v2(V(0, 0, 1), "dev")
    /\ DeployTag_v2(V(1, 0, 0), "production") \in DOMAIN tags
    /\ pc = "preview"

\* C19: a deploy without --version and without --rebuild that resolves a
\* version resolves the increment of the latest version of its track by the
\* kind its flag names (--major, --minor, --patch; patch when none is given).
C19_FlagDeterminesVersion ==
    [][(/\ pc = "determine"
        /\ pc' \in {"confirm", "preview"}
        /\ specific_version' = EmptyStr
        /\ ~(rebuild_mode' /\ version_choice' = 0))
         => new_version' =
              IF script = "v2"
              THEN increment_version_v2(latest_tag', increment_type')
              ELSE increment_version(VersionOfTag(latest_tag'), increment_type')]_vars

\* C19: `deploy.sh dev` with no flag, in a repository without tags, has
\* resolved 0.0.1
C19_Witness ==
    /\ script \in {"v2", "v3"}
    /\ environment = "dev"
    /\ pc = "preview"
    /\ DOMAIN tags = {}
    /\ specific_version = EmptyStr
    /\ ~rebuild_mode
    /\ increment_type = "patch"
    /\ latest_tag = SeedTag
    /\ new_version = V(0, 0, 1)

\* the kind the running deploy increments by: the flag (scripts/deploy.sh)
\* or the answer to the version menu (v3.0)
IncrementKind ==
    IF script = "v2" THEN increment_type ELSE VersionMenu(version_choice)

\* C20: incrementing the version (major, minor, patch) by major gives
\* (major + 1, 0, 0), by minor (major, minor + 1, 0) and by patch
\* (major, minor, patch + 1).
C20_IncrementFields ==
    (Incremented /\ IsXYZ(VersionOfTag(latest_tag)))
        => LET v == Triple(VersionOfTag(latest_tag))
           IN  /\ IsXYZ(new_version)
               /\ Triple(new_version) =
                    CASE IncrementKind = "major" -> <<v[1] + 1, 0, 0>>
                      [] IncrementKind = "minor" -> <<v[1], v[2] + 1, 0>>
                      [] OTHER -> <<v[1], v[2], v[3] + 1>>

\* C20, the state that refutes it: scripts/deploy.sh --major has made 9.0.0
\* of 010.0.0
C20_Witness ==
    /\ script = "v2"
    /\ pc = "preview"
    /\ increment_type = "major"
    /\ specific_version = EmptyStr
    /\ latest_tag = DeployTag_v2(Str("", <<<<0, 1, 0>>, <<0>>, <<0>>>>, <<>>), "dev")
    /\ new_version = V(9, 0, 0)

\* the latest production version, as the running deploy resolved it
LatestProduction ==
    IF script = "v2" THEN latest_tag ELSE VersionOfTag(latest_tag)

\* C21: a hotfix invocation without --version and without --rebuild that has
\* created a tag has created the production tag (no qualifier) of the patch
\* increment of the latest production version, whatever increment flag or
\* version menu answer came with it.
C21_HotfixIsPatch ==
    (/\ hotfix
     /\ Did("tag_create")
     /\ specific_version = EmptyStr
     /\ ~(rebuild_mode /\ version_choice = 0))
        => /\ RenderedTag = [new_version EXCEPT !.p = VERSION_PREFIX \o new_version.p]
           /\ new_version =
                IF script = "v2"
                THEN increment_version_v2(LatestProduction, "patch")
                ELSE increment_version(LatestProduction, "patch")

\* C21, the state that refutes it: a v3.0 hotfix in a repository without
\* tags, whose operator answered the version menu with 3 (major), has
\* created and pushed v1.0.0 and not v0.0.1
C21_Witness ==
    /\ script = "v3"
    /\ hotfix
    /\ environment = "production"
    /\ increment_type = "patch"
    /\ specific_version = EmptyStr
    /\ VersionMenu(version_choice) = "major"
    /\ latest_tag = SeedTag
    /\ new_version = V(1, 0, 0)
    /\ Did("tag_create")
    /\ RenderedTag \in DOMAIN remote

\* the explicit version of the running deploy: the --version argument, or
\* the custom version typed at the version menu
ExplicitVersion ==
    IF specific_version # EmptyStr THEN specific_version
    ELSE IF script = "v3" /\ VersionMenu(version_choice) = "custom" THEN new_version
    ELSE EmptyStr

\* C22: a deploy (without --rebuild) whose explicit version, given with
\* --version or typed as a custom version, is not of the form
\* digits.digits.digits ends with exit code 1 and has created no tag, pushed
\* nothing and made no commit.
C22_MalformedVersionRejected ==
    (/\ Deploying
     /\ ~rebuild_mode
     /\ ExplicitVersion # EmptyStr
     /\ ~IsXYZ(ExplicitVersion))
        => (pc = "done" /\ exit_code = 1 /\ ops = <<>>)

\* C22, the state that refutes it: `deploy.sh dev --version 1.0` has created
\* and pushed the tag v1.0-dev
C22_Witness ==
    /\ Deploying
    /\ environment = "dev"
    /\ ~rebuild_mode
    /\ specific_version = Str("", <<<<1>>, <<0>>>>, <<>>)
    /\ Did("tag_create")
    /\ Did("push")
    /\ RenderedTag \in DOMAIN remote

C24_HistoryDescending ==
    [][(pc = "rb_history")
       => LET history == get_deployment_history(environment, DOMAIN tags)
          IN  /\ Len(history) <= MAX_VERSIONS_TO_SHOW
              /\ \A i \in 1..Len(history) : history[i] \in DOMAIN tags
              /\ \A i, j \in 1..Len(history) :
                   i < j => /\ history[i] # history[j]
                            /\ TripleLeq(Triple(history[j]), Triple(history[i]))
              /\ history # <<>> => current_version' = history[1]]_vars

\* C24, the state that refutes it: with the development tags v1.0.0-dev and
\* v010.0.0-dev the history begins with v1.0.0-dev
C24_Witness ==
    /\ script = "rollback"
    /\ environment = "development"
    /\ DOMAIN tags = {DeployTag_v2(V(1, 0, 0), "dev"),
                      DeployTag_v2(Str("", <<<<0, 1, 0>>, <<0>>, <<0>>>>, <<>>), "dev")}
    /\ pc = "rb_validate"
    /\ current_version = DeployTag_v2(V(1, 0, 0), "dev")

\* a step of deploy_version that takes the rebuild branch
Rebuilding ==
    /\ script = "v3"
    /\ pc = "deploy"
    /\ rebuild_mode \/ collision_choice' = 1

\* what the step has run
StepOps == SubSeq(ops', Len(ops) + 1, Len(ops'))

C30_RebuildRunIsFresh ==
    (script = "v3" /\ rebuild_mode /\ workflow_found) => workflow_id = "run"

\* C30, the state that refutes it: GitHub had not yet started the run of the
\* rebuild push; the monitor found the run of the earlier push, which had
\* succeeded, and reported the deployment as completed successfully
C30_Witness ==
    /\ script = "v3"
    /\ rebuild_mode
    /\ Did("remote_delete")
    /\ Did("push")
    /\ workflow_found
    /\ workflow_id = "old_run"
    /\ run.status = "none"
    /\ pc = "done"
    /\ exit_code = 0
    /\ "SUCCESS" \in printed

\* the runs GitHub holds of the tag t, by either form of its reference
RunsOfTag(t) ==
    {r \in {run, old_run} : r.status # "none" /\ MatchesRun(r.headBranch, t)}

\* C25: in the listing of the rollback history a tag carries the success
\* indicator only if a run of that tag has the conclusion success; a tag
\* without a run, and every tag when gh is not installed, carries the
\* indicator of the unknown status.
C25_SuccessOnlyIfRunSucceeded ==
    \A t \in DOMAIN status_indicator :
        /\ status_indicator[t] = "check"
             => \E r \in RunsOfTag(t) : r.conclusion = "success"
        /\ (RunsOfTag(t) = {} \/ (pc = "rb_validate" /\ ~gh))
             => status_indicator[t] = "question"

\* a listing that shows one tag as deployed with success, next to a tag
\* that has no run and is shown as unknown
C25_Witness ==
    /\ script = "rollback"
    /\ gh
    /\ \E t, u \in DOMAIN status_indicator :
         /\ status_indicator[t] = "check"
         /\ RunsOfTag(u) = {}
         /\ status_indicator[u] = "question"

\* C27: a rollback whose run ended in a failure exits with a code other
\* than zero.
C27_FailedRollbackExitsNonZero ==
    (/\ script = "rollback"
     /\ pc = "done"
     /\ workflow_found
     /\ workflow_conclusion \in {"failure", "cancelled"})
        => exit_code # 0

\* the rollback watched the run of its new tag, read the conclusion failure,
\* printed that the rollback deployment failed, and ended with exit 0
C27_Witness ==
    /\ script = "rollback"
    /\ pc = "done"
    /\ new_tag \in DOMAIN remote
    /\ workflow_id = "run"
    /\ MatchesRun(run.headBranch, new_tag)
    /\ run.conclusion = "failure"
    /\ workflow_conclusion = "failure"
    /\ "FAILURE" \in printed
    /\ exit_code = 0

\* both operators ran deploy_version for the tag: each created it in their
\* clone and pushed it
BothDeployed ==
    /\ script \in {"v2", "v3"}
    /\ ~rebuild_mode
    /\ peer # NoPeer
    /\ peer.tag = PushedTag
    /\ Did("tag_create")

\* C29: when two deploys without --rebuild found no tag of the name and both
\* pushed it, origin accepted at most one push; the tag on origin points at
\* the commit of the operator whose push was accepted, and the other deploy
\* ended with the push error, leaving the tag on origin as it was.
C29_OnePushWins ==
    BothDeployed
        => /\ ~(peer.pushed /\ Did("push"))
           /\ peer.pushed
                => /\ remote[PushedTag] = PeerCommit
                   /\ Did("push_failed")
                   /\ pc = "done"
                   /\ exit_code # 0
           /\ Did("push")
                => /\ remote[PushedTag] = head
                   /\ ~peer.pushed

\* the other operator pushed first: this deploy created the tag in its
\* clone, its push was rejected, and it ended with exit 1
C29_Witness ==
    /\ BothDeployed
    /\ peer.pushed
    /\ ~peer.after
    /\ remote[PushedTag] = PeerCommit
    /\ tags[PushedTag] = head
    /\ Did("push_failed")
    /\ exit_code = 1

\* both operators ran perform_rollback for the target and each created a
\* rollback marker in their clone
BothRolledBack ==
    /\ script = "rollback"
    /\ peer # NoPeer
    /\ Did("tag_create")

\* C26: two rollbacks to the same target that both created a tag created
\* tags of different names, and the one created later carries the larger
\* timestamp.
C26_RollbacksDistinguishable ==
    BothRolledBack
        => /\ new_tag # peer.tag
           /\ IF peer.after
              THEN Timestamp(peer.tag) > Timestamp(new_tag)
              ELSE Timestamp(new_tag) > Timestamp(peer.tag)

\* two rollbacks to one target within the same second: both clones hold a
\* marker of the same name, and origin rejected the push that came second
C26_Witness ==
    /\ BothRolledBack
    /\ new_tag = peer.tag
    /\ new_tag \in DOMAIN tags
    /\ peer.pushed
    /\ Did("push_failed")
    /\ exit_code = 1

\* the polling loop of scripts/deploy.sh ends on a step that prints none of
\* the messages of an answered poll: gh run view failed
PollQueryFails ==
    /\ script = "v2"
    /\ pc = "poll"
    /\ pc' = "done"
    /\ printed' \cap {"SUCCESS", "FAILURE", "TIMEOUT"} = printed \cap {"SUCCESS", "FAILURE", "TIMEOUT"}

\* C31: a status query that fails while a found run is polled ends the
\* polling with the manual-monitoring fallback, and the invocation does not
\* exit non-zero because of it.
C31_QueryFailureNotFatal ==
    [][PollQueryFails => (exit_code' = 0 /\ "MANUAL_URL" \in printed')]_vars

\* scripts/deploy.sh found the run, gh run view failed on a poll, and the
\* script ended with gh's exit status and no message
C31_Witness ==
    /\ script = "v2"
    /\ pc = "done"
    /\ workflow_found
    /\ check_count >= 1
    /\ exit_code = 1
    /\ printed \cap {"SUCCESS", "FAILURE", "TIMEOUT", "MANUAL_URL", "NOT_FOUND"} = {}

C33_MessageRecordsBothVersions ==
    (script = "rollback" /\ Did("tag_create"))
        => /\ message.words \cap {"user.name", "USER"} # {}
           /\ version \in message.tags
           /\ current_version \in message.tags

\* a rollback from the current version to an older one created its tag with
\* a message that names the target and the initiator, and no other version
C33_Witness ==
    /\ script = "rollback"
    /\ Did("tag_create")
    /\ new_tag \in DOMAIN tags
    /\ current_version # version
    /\ message.tags = {version}
    /\ "user.name" \in message.words

\* C34: while a run is polled the status line is printed only when the
\* status differs from the one printed last: no two consecutive printed
\* statuses are equal.
C34_StatusPrintedOnChange ==
    \A i \in 1..(Len(status_lines) - 1) : status_lines[i] # status_lines[i + 1]

\* the monitor polled a run that stayed in progress over two polls and
\* printed its status once
C34_Witness ==
    /\ script = "v2"
    /\ pc = "poll"
    /\ check_count >= 3
    /\ status_lines = <<"queued", "in_progress">>
    /\ last_status = "in_progress"

\* the latest tag of every environment, as both deploy scripts compute it
\* from a set of tag names
LatestOfTracks(names) ==
    [e \in {"dev", "staging", "prod", "production"} |->
        <<get_latest_version(e, names), get_latest_version_v2(e, names)>>]

\* C35: no step of a rollback changes the latest tag of any environment as
\* the deploy scripts compute it, in the clone or on origin: a deploy after
\* a rollback increments from the same tag as before it.
C35_RollbackKeepsLatest ==
    [][script = "rollback"
       => /\ LatestOfTracks(DOMAIN tags') = LatestOfTracks(DOMAIN tags)
          /\ LatestOfTracks(DOMAIN remote') = LatestOfTracks(DOMAIN remote)]_vars

\* a rollback to the latest development tag has created and pushed its
\* marker, and that tag is still the latest of its environment
C35_Witness ==
    /\ script = "rollback"
    /\ environment = "development"
    /\ Did("push")
    /\ new_tag \in DOMAIN tags
    /\ new_tag \in DOMAIN remote
    /\ version # SeedTag
    /\ version = get_latest_version("dev", DOMAIN remote)

\* the tag t is a deployment tag of the environment: v<M>.<N>.<P> alone for
\* production, with -staging for staging, with -dev for development
OwnPattern(env, t) ==
    /\ t.p = "v"
    /\ Len(t.ver) = 3
    /\ t.suf = CASE env \in {"development", "dev"} -> <<Word("dev")>>
                 [] env = "staging" -> <<Word("staging")>>
                 [] OTHER -> <<>>

\* C36: every entry of the rollback history of an environment is a
\* deployment tag of that environment's own pattern, never a rollback
\* marker or a tag of another environment, and so is the entry taken as the
\* current version.
C36_HistoryOwnPattern ==
    [][(script = "rollback" /\ pc = "rb_history")
       => LET history == get_deployment_history(environment, DOMAIN tags)
          IN  /\ \A i \in 1..Len(history) : OwnPattern(environment, history[i])
              /\ history # <<>> => OwnPattern(environment, current_version')]_vars

\* with the production tag v1.0.0 and the marker of an earlier rollback to
\* it, v1.0.0-rollback-0, the marker is the first entry of the production
\* history and is taken as the current version
C36_Witness ==
    /\ script = "rollback"
    /\ environment = "production"
    /\ pc = "rb_validate"
    /\ DeployTag(V(1, 0, 0), "production") \in DOMAIN tags
    /\ current_version =
         Append2(DeployTag(V(1, 0, 0), "production"), <<Word("rollback"), Num(0)>>)

\* C37: the deploy monitor prints that the deployment failed, and exits
\* non-zero, only for a run that has ended with a conclusion other than
\* success; a run still going when the watching stopped is not reported as
\* a failed deployment.
C37_FailureOnlyForEndedRun ==
    (script \in {"v2", "v3"} /\ "FAILURE" \in printed /\ exit_code # 0)
        => /\ Watched.status = "completed"
           /\ Watched.conclusion \in {"failure", "cancelled"}

\* gh run watch failed while the run was in progress; gh run view answered
\* with the conclusion null, and the script printed "Deployment failed with
\* status: null" and ended with exit 1
C37_Witness ==
    /\ script = "v3"
    /\ pc = "done"
    /\ workflow_found
    /\ Watched.status = "in_progress"
    /\ workflow_conclusion = "null"
    /\ "FAILURE" \in printed
    /\ exit_code = 1

\* C38: when a deploy invocation has ended, every tag of the clone is on
\* origin, also after a push that failed: the invocation leaves no tag
\* behind that only the clone holds.
C38_CloneAndOriginAgree ==
    (script \in {"v2", "v3"} /\ pc = "done")
        => \A t \in DOMAIN tags : t \in DOMAIN remote

\* git tag -a created the tag, git push failed and set -e ended the script
\* with exit 1: the tag is in the clone and not on origin
C38_Witness ==
    /\ script \in {"v2", "v3"}
    /\ pc = "done"
    /\ exit_code = 1
    /\ Did("tag_create")
    /\ Did("push_failed")
    /\ PushedTag \in DOMAIN tags
    /\ PushedTag \notin DOMAIN remote
====
